---- MODULE Spec2Model ----
(***************************************************************************)
(* Model of the publication pipeline of matverse-acoa/papers:              *)
(*   tools/exocortex_executor/executor_v2.py  (SovereignExecutor.run)      *)
(*   tools/exocortex_executor/deploy_with_tests_and_tracing.py             *)
(*                                            (DeployExecutor.execute)     *)
(* and of the collaborators they call (manifest, sbom, provenance,         *)
(* pbse_local, omega_gate, sigstore_attest, publishers, ledger).           *)
(*                                                                         *)
(* One behaviour is one run of one executor.  Each action is one stage of  *)
(* the run together with everything the code does before the next stage    *)
(* starts (recording the step, block(), the exception handler, the report  *)
(* write).  What the outside world answers (exit codes, HTTP responses,    *)
(* I/O errors) is drawn with \E in the action that asks for it.            *)
(*                                                                         *)
(* Second part: the evidence ledger                                        *)
(*   matverse-core/core/ledger/merkle_ledger.py  (ScientificMerkleLedger)  *)
(* under the specification SpecLedger.  One behaviour is one ledger object *)
(* and the calls a program makes on it; the entries are objects held by    *)
(* reference, which code outside the ledger can write to (Tamper).  The    *)
(* Merkle tree is the one of the merkletools package the module imports:   *)
(* nodes are hashed in pairs, a last node without partner is carried up.   *)
(***************************************************************************)
EXTENDS Integers, Sequences, FiniteSets, TLC

VARIABLES
  executor,     \* which entry point runs: "sovereign" | "deploy"
  env,          \* the process environment / DeployConfig the run reads
  pc,           \* the stage the run executes next, or "returned" / "escaped"
  now,          \* logical clock behind datetime.now()
  results,      \* self.results (SovereignExecutor) / self.deploy_results
  manifest,     \* local variable manifest of run() / execute()
  prov,         \* local variable prov of run()
  publishers,   \* local variable publishers of run() (load_publishers())
  pub_i,        \* position of the for loop of publish()
  out,          \* local variable out of publish()
  calls,        \* history: the stages executed, in order, with their outcome
  published,    \* outside world: publishers whose publication took place
  reports,      \* outside world: the reports written (completed writes, in order)
  ledger_file,  \* outside world: lines of deploy_reports/ledger.jsonl
  manifest_file,\* outside world: what ManifestBuilder wrote into manifest.json
  objects,      \* the LedgerEntry objects that exist, by reference
  ledger,       \* ScientificMerkleLedger.ledger: the references stored, in order
  merkle_tools, \* ScientificMerkleLedger.merkle_tools: the tree as last built
  last_op,      \* history: the last ledger operation, its argument and result
  modified,     \* history: stored objects whose content was changed from outside
  aliased,      \* history: add_entry was given an object that was already stored
  t_pc,         \* each thread: where it is inside add_entry, or "idle" between calls
  t_entry,      \* each thread: local variable entry of add_entry (a reference)
  t_k,          \* each thread: position of the for loop of rebuild_tree
  log_file,     \* outside world: the lines of the file LedgerWriter appends to
  lines_before, \* history: the lines the file held before the first write
  ok_records,   \* history: the records whose write returned ok, in the order of the writes
  write_results,\* history: what the last write of each LedgerWriter returned
  write_count,  \* history: the number of write calls made
  run_env,      \* two runs: the environment both runs are started in
  run_pc,       \* two runs: the stage each run executes next
  run_manifest, \* two runs: local variable manifest of each run
  cwd_files,    \* outside world: the files of the working directory, by name
  registry,     \* the metrics registry of prometheus_client in each process
  consumed,     \* history: for each run and stage, the manifest the stage read
  chain,        \* the identity chain a program holds: a list of full_payload dicts
  made,         \* history: the chain as create_author_chain returned it, if it was called
  replaced,     \* history: positions whose stored ohash was replaced from outside
  relinked,     \* history: positions whose record was re-made with another prev_ohash
  verified,     \* history: what the last verify_chain(chain) returned, if it was called
  reported,     \* history: the first verify_chain result on a wrong chain, and the first wrong position
  sliced,       \* what the last verify_chain(chain[j:k]) returned, with j and k, if it was called
  gate,         \* the OmegaGate object: its four thresholds
  metrics,      \* the GovernanceMetrics object passed to decide
  decision,     \* what the last decide(metrics) returned, if it was called
  first_decision,\* history: what decide returned before metrics.psi was overwritten
  psi_set,      \* history: metrics.psi was overwritten after a decision
  explanation,  \* Option: the dict explain_decision returned for these metrics
  build_files,  \* the list of files a caller passes to ManifestBuilder.build
  build_key,    \* MATVERSE_MANIFEST_SIGNING_KEY in the environment of the caller
  built,        \* what build(files) returned, if it was called
  built_permuted,\* what build returned for a permutation of the same list, if called
  built_file,   \* outside world: what build wrote into manifest.json last
  z_client,     \* which code publishes: ZenodoPublisher.publish or DeployExecutor._publish_to_zenodo
  z_pc,         \* where the attempt is: "create", "upload", "done"
  z_files,      \* how many files the attempt has to upload
  z_created,    \* outside world: a deposition was created
  z_uploads,    \* outside world: how each upload request made so far ended
  z_published,  \* outside world: the publish action was called for the deposition
  z_result,     \* Option: what the publishing code returned
  c_history,    \* PastHead.history[actor], an Option: action_count and action_types
  c_window,     \* PresentHead.action_windows[actor]: the patterns of the last actions
  c_pc,         \* where validate_action is: "idle", "present", "future"
  c_context,    \* the ActionContext of the call
  c_results     \* the results dict of the call, its items in insertion order

\* the state of a ScientificMerkleLedger and its history
ledger_vars == <<objects, ledger, merkle_tools, last_op, modified, aliased>>

\* the state of a pipeline run and of the files it writes
pipeline_vars == <<executor, env, pc, now, results, manifest, prov, publishers, pub_i,
                   out, calls, published, reports, ledger_file, manifest_file>>

\* the threads that call add_entry on one ledger at the same time
thread_vars == <<t_pc, t_entry, t_k>>

\* the log file of LedgerWriter and the writes made to it
writer_vars == <<log_file, lines_before, ok_records, write_results, write_count>>

\* two runs of the pipeline in one working directory
runs_vars == <<run_env, run_pc, run_manifest, cwd_files, registry, consumed>>

\* an identity chain of the OHash engine
identity_vars == <<chain, made, replaced, relinked, verified, reported, sliced>>

\* a call of the governance gate
gate_vars == <<gate, metrics, decision, first_decision, psi_set, explanation>>

\* a call of ManifestBuilder.build on a list of files
build_vars == <<build_files, build_key, built, built_permuted, built_file>>

\* one publication attempt on Zenodo
zenodo_vars == <<z_client, z_pc, z_files, z_created, z_uploads, z_published, z_result>>

\* a Cerberos object and the validate_action call it is in
cerberos_vars == <<c_history, c_window, c_pc, c_context, c_results>>

vars == <<pipeline_vars, ledger_vars, thread_vars, writer_vars, runs_vars, identity_vars,
          gate_vars, build_vars,
          zenodo_vars,
          cerberos_vars>>

\* what a stage of a pipeline run leaves alone, besides the run's own state
beside_pipeline == <<ledger_vars, thread_vars, writer_vars, runs_vars, identity_vars,
                     gate_vars, build_vars,
                     zenodo_vars,
                     cerberos_vars>>
\* what a call on the ledger leaves alone, besides the ledger's own state
beside_ledger == <<pipeline_vars, thread_vars, writer_vars, runs_vars, identity_vars,
                   gate_vars, build_vars,
                   zenodo_vars,
                   cerberos_vars>>

(***************************************************************************)
(* Bounds                                                                  *)
(***************************************************************************)
\* most files collect_files() finds
MaxFiles == 2
\* most names in MATVERSE_PUBLISHERS
MaxPublishers == 2
\* most add_entry calls the threads of a program make on one ledger
MaxCalls == 2
\* most LedgerWriter.write calls made on one log file
MaxWrites == 3
\* most artifacts passed to create_author_chain
MaxArtifacts == 3
\* most files in a list passed to ManifestBuilder.build directly
MaxBuildFiles == 3
\* most files of one publication attempt on Zenodo
MaxUploads == 3
\* most actions PastHead counts for the actor
MaxValidations == 12

(***************************************************************************)
(* Python values                                                           *)
(***************************************************************************)
\* d[k] = v on a dict
Put(d, k, v) == (k :> v) @@ d
\* d.get(k, default)
Get(d, k, default) == IF k \in DOMAIN d THEN d[k] ELSE default
\* the empty dict
EmptyDict == <<>>
\* a pathlib.Path object, and str() of it
PathObj(s) == [pytype |-> "Path", s |-> s]
PyStr(p) == p.s
\* a raised exception, as the value of a call
Raised(msg) == [raised |-> msg]
IsRaised(v) == "raised" \in DOMAIN v
\* json.dumps of a manifest / provenance dict succeeds unless it holds a Path
\* object (json raises TypeError on it)
json_dumps_ok(d) == ~("path" \in DOMAIN d /\ d["path"].pytype = "Path")

\* self.results["steps"][name] = value
SetStep(res, name, v) == Put(res, "steps", Put(res["steps"], name, v))

(***************************************************************************)
(* Environment                                                             *)
(***************************************************************************)
\* PUBLISHER_REGISTRY (publishers/__init__.py), and a name that is not in it
PUBLISHER_REGISTRY == {"github", "local_archive", "zenodo"}
PublisherNames == PUBLISHER_REGISTRY \cup {"unknown"}
PublisherLists == UNION {[1..n -> PublisherNames] : n \in 0..MaxPublishers}

\* environments of SovereignExecutor: EXECUTOR_MODE, MATVERSE_OMEGA_GATE_URL set?,
\* a manifest signing key set?, MATVERSE_PUBLISHERS
SovereignEnvs ==
  [executor : {"sovereign"}, mode : {"dry-run", "production"},
   omega_url : BOOLEAN, signing_key : BOOLEAN, publishers : PublisherLists]

\* configurations of DeployExecutor: DeployConfig and ZENODO_TOKEN set?
DeployEnvs ==
  [executor : {"deploy"},
   require_omega_gate : BOOLEAN, enable_zenodo : BOOLEAN, zenodo_token : BOOLEAN,
   enable_github_push : BOOLEAN, enable_orcid_update : BOOLEAN]

\* what a write to the file system may do
IoOutcome == {"ok", "raise"}

(***************************************************************************)
(* SovereignExecutor: block, the exception handler, write_report           *)
(***************************************************************************)
\* SovereignExecutor.block, the four assignments
block_without_flag(res, reason, t) ==
  Put(Put(Put(res, "success", FALSE), "reason", reason), "end_time", t)
block(res, reason, t) ==
  Put(Put(Put(Put(res, "success", FALSE), "blocked", TRUE), "reason", reason),
      "end_time", t)

\* the except clause of run(), the three assignments
handler(res, exc, t) ==
  Put(Put(Put(res, "success", FALSE), "error", exc), "end_time", t)

\* the end of the try block of run()
succeed(res, t) == Put(Put(res, "success", TRUE), "end_time", t)

\* write_report: json.dump(self.results) into deploy_<trace_id>.json
write_report(reps, res) == Append(reps, res)

\* the statement after the try/except of run(): write_report(), return
FinalReport(res, w) ==
  /\ results' = res
  /\ IF w = "ok"
       THEN reports' = write_report(reports, res) /\ pc' = "returned"
       ELSE reports' = reports /\ pc' = "escaped"

\* an exception raised inside the try block of run()
Except(res, exc, w2) ==
  /\ now' = now + 1
  /\ FinalReport(handler(res, exc, now), w2)

\* block() writes its report and run() goes on to its last statement, which
\* writes the report again
Block_falls_through(res, reason, w1, w2) ==
  LET r1 == block(res, reason, now) IN
  /\ now' = now + 1
  /\ results' = r1
  /\ reports' = write_report(write_report(reports, r1), r1)
  /\ pc' = "returned"

\* return self.block(reason): block() writes the report itself and run() returns
\* its value; an exception of that write is raised inside the try block
Block(res, reason, w1, w2) ==
  LET r1 == block(res, reason, now) IN
  IF w1 = "ok"
    THEN /\ now' = now + 1
         /\ results' = r1
         /\ reports' = write_report(reports, r1)
         /\ pc' = "returned"
    ELSE /\ now' = now + 2
         /\ FinalReport(handler(r1, "report write failed", now + 1), w2)

\* the stage that just ran is run again
Continue_same_stage(res, next) ==
  /\ results' = res
  /\ pc' = pc
  /\ UNCHANGED <<now, reports>>
\* the run goes on to the next stage
Continue(res, next) ==
  /\ results' = res
  /\ pc' = next
  /\ UNCHANGED <<now, reports>>

\* one more stage in the history
\* one more stage in the history: the stage, who was called (the publisher, for
\* the publish stage), how it ended ("ok", "fail", "raise", "skipped") and
\* whether the outside collaborator was invoked
Call(stage, who, outcome, invoked) ==
  calls' = Append(calls, [stage |-> stage, who |-> who, outcome |-> outcome,
                          invoked |-> invoked])

(***************************************************************************)
(* The collaborators of SovereignExecutor, as functions of their inputs    *)
(* and of what the outside world answers                                   *)
(***************************************************************************)
\* ManifestBuilder.build: hash the files, sign (which needs the key), write
\* manifest.json, then add the Path of the written file under "path"
ManifestBuilder_build_unsigned(trace_id, nfiles, has_key, io) ==
  IF io = "raise" THEN Raised("cannot read file")
  ELSE [trace_id |-> trace_id,
        root_hash |-> <<"sha256", nfiles>>,
        files |-> [i \in 1..nfiles |-> [path |-> i, sha256 |-> i]],
        signature |-> IF has_key THEN "signed" ELSE "",
        path |-> PathObj("manifest.json")]
ManifestBuilder_build(trace_id, nfiles, has_key, io) ==
  IF io = "raise" THEN Raised("cannot read file")
  ELSE IF ~has_key THEN Raised("Missing manifest signing key")
  ELSE [trace_id |-> trace_id,
        root_hash |-> <<"sha256", nfiles>>,
        files |-> [i \in 1..nfiles |-> [path |-> i, sha256 |-> i]],
        signature |-> "signed",
        path |-> PathObj("manifest.json")]

\* what build has written into manifest.json when it returns m: the manifest as
\* it was before the "path" entry was added
ManifestBuilder_written(m) == [k \in DOMAIN m \ {"path"} |-> m[k]]

\* ProvenanceBuilder.generate: hash the SBOM, write provenance.json
ProvenanceBuilder_generate(m, io) ==
  IF io = "raise" THEN Raised("cannot read sbom")
  ELSE [slsa_level |-> 2,
        manifest_hash |-> m["root_hash"],
        sbom |-> "sbom.json",
        materials |-> Get(m, "files", <<>>),
        path |-> PathObj("provenance.json")]

\* PBSEValidator.validate
PBSEValidator_validate(m, p) ==
  IF Get(m, "signature", "") = "" THEN FALSE
  ELSE IF Get(p, "slsa_level", 0) < 2 THEN FALSE
  ELSE IF Len(Get(p, "materials", <<>>)) = 0 THEN FALSE
  ELSE TRUE

\* what the governance endpoint may answer: no answer (transport or HTTP error, a
\* body that is not JSON), a JSON value that is no object, or an object whose
\* "pass" is absent, true, false, a non-empty string, or 0
PassValues == {"absent", "true", "false", "'no'", "0"}
HttpAnswers == {[kind |-> "error"], [kind |-> "nondict"]}
                 \cup {[kind |-> "dict", pass |-> v] : v \in PassValues}
\* bool(result.get("pass"))
PyBoolPass(v) == v \in {"true", "'no'"}

\* OmegaGateClient.validate (tools/exocortex_executor/omega_gate.py)
OmegaGateClient_validate(url, m, p, http) ==
  IF ~url THEN [ok |-> TRUE, skipped |-> TRUE, reason |-> "offline"]
  ELSE IF ~(json_dumps_ok(m) /\ json_dumps_ok(p))
    THEN Raised("Object of type PosixPath is not JSON serializable")
  ELSE IF http.kind = "error" THEN [ok |-> FALSE, error |-> "transport"]
  ELSE IF http.kind = "nondict" THEN [ok |-> FALSE, error |-> "Invalid response"]
  ELSE [ok |-> PyBoolPass(http.pass), response |-> http]

\* the HTTP request of OmegaGateClient.validate is sent
OmegaRequestSent(url, m, p) == url /\ json_dumps_ok(m) /\ json_dumps_ok(p)

\* SigstoreAttestor.attest; cmd is the exit status of the cosign command
SigstoreAttestor_attest(mode, cmd) ==
  IF mode # "production" THEN [ok |-> TRUE, skipped |-> TRUE, reason |-> "dry-run"]
  ELSE IF cmd # "ok" THEN [ok |-> FALSE, error |-> "cosign failed"]
  ELSE [ok |-> TRUE]

\* load_publishers (publishers/__init__.py): the list of publisher objects
\* (under "loaded"), or RuntimeError at the first name that is not registered
load_publishers(names) ==
  IF \E i \in 1..Len(names) : names[i] \notin PUBLISHER_REGISTRY
    THEN Raised("Unknown publisher")
    ELSE [loaded |-> names]

\* what the outside world does to a publisher
PublisherWorld == {"ok", "fail", "raise", "transport"}

\* GitHubPublisher.publish: a placeholder, ok unless token or repository is missing
GitHubPublisher_publish(world) ==
  IF world = "ok" THEN [ok |-> TRUE, message |-> "Placeholder GitHub publisher"]
  ELSE [ok |-> FALSE, error |-> "Missing MATVERSE_GITHUB_TOKEN or MATVERSE_GITHUB_REPO"]

\* LocalArchivePublisher.publish: writes the tar archive (which may raise), then
\* json.dump of {"manifest": manifest, ...}
LocalArchivePublisher_publish(m, world) ==
  IF world # "ok" THEN Raised("cannot write archive")
  ELSE IF ~json_dumps_ok(m)
    THEN Raised("Object of type PosixPath is not JSON serializable")
  ELSE [ok |-> TRUE, archive |-> "archive.tar.gz"]

\* ZenodoPublisher.publish: ok iff the token is set and deposition, uploads and
\* the publish action all succeed; a requests.RequestException of a request is
\* caught by _request and its str() returned as the error; opening a file to
\* upload may raise
ZenodoPublisher_publish(world) ==
  IF world = "ok" THEN [ok |-> TRUE, deposition_id |-> "id", doi |-> "doi"]
  ELSE IF world = "fail" THEN [ok |-> FALSE, error |-> "zenodo"]
  ELSE IF world = "transport" THEN [ok |-> FALSE, error |-> "transport"]
  ELSE Raised("cannot open file")

\* publisher.publish(files, manifest) in the loop of SovereignExecutor.publish
Publisher_publish(name, m, world) ==
  IF name = "github" THEN GitHubPublisher_publish(world)
  ELSE IF name = "local_archive" THEN LocalArchivePublisher_publish(m, world)
  ELSE ZenodoPublisher_publish(world)

\* the publication of this publisher took place in the outside world: zenodo
\* when its publish action succeeded, local_archive as soon as the archive is
\* written; GitHubPublisher is a placeholder that publishes nothing
Publisher_took_place(name, world) ==
  name \in {"zenodo", "local_archive"} /\ world = "ok"

\* the condition under which publish() does nothing
publish_skipped_never(mode) == FALSE
publish_skipped(mode) == mode # "production"

\* a writer that opens the file with mode "w" instead of "a"
LedgerWriter_write_truncating(file, record, io) ==
  IF io = "ok" THEN <<record>> ELSE file
\* LedgerWriter.write: the line appended is json.dumps(record)
LedgerWriter_write(file, record, io) ==
  IF io = "ok" THEN Append(file, record) ELSE file
LedgerWriter_result(io) ==
  IF io = "ok" THEN [ok |-> TRUE, path |-> "ledger.jsonl"]
  ELSE [ok |-> FALSE, error |-> "cannot write ledger"]

(***************************************************************************)
(* SovereignExecutor.run, stage by stage                                   *)
(***************************************************************************)
\* the conditions of run() that end the run in block()
tests_blocks_never(tests_ok) == FALSE
tests_blocks(tests_ok) == ~tests_ok
pbse_blocks(pbse_ok) == ~pbse_ok
\* a run that goes on whatever a stage returned
step_blocks_never(r) == FALSE
step_blocks(r) == ~Get(r, "ok", FALSE)
publish_blocks(r) == Get(r, "blocked", FALSE) = TRUE

\* SovereignExecutor.__init__: self.results
SovereignResults(e) ==
  [trace_id |-> "t1", mode |-> e.mode, start_time |-> 0, steps |-> EmptyDict]

\* files = collect_files(); manifest = ManifestBuilder(trace_id).build(files)
Manifest ==
  /\ executor = "sovereign" /\ pc = "manifest"
  /\ \E nfiles \in 0..MaxFiles, io \in IoOutcome, w2 \in IoOutcome :
       LET m == ManifestBuilder_build(results["trace_id"], nfiles, env.signing_key, io) IN
       IF IsRaised(m)
         THEN /\ Call("manifest", "manifest", "raise", TRUE)
              /\ manifest' = manifest
              /\ manifest_file' = manifest_file
              /\ Except(results, m.raised, w2)
         ELSE /\ Call("manifest", "manifest", "ok", TRUE)
              /\ manifest' = m
              /\ manifest_file' = ManifestBuilder_written(m)
              /\ Continue(SetStep(results, "manifest",
                                  [ok |-> TRUE, path |-> PyStr(m["path"])]), "tests")
  /\ UNCHANGED <<beside_pipeline, executor, env, prov, publishers, pub_i, out, published, ledger_file>>

\* tests_ok = self.run_tests()
Tests ==
  /\ executor = "sovereign" /\ pc = "tests"
  /\ \E o \in {"ok", "fail", "raise"}, w1 \in IoOutcome, w2 \in IoOutcome :
       /\ Call("tests", "tests", o, TRUE)
       /\ IF o = "raise"
            THEN Except(results, "cannot run test command", w2)
            ELSE LET res == SetStep(results, "tests", [ok |-> o = "ok"]) IN
                 IF tests_blocks(o = "ok")
                   THEN Block(res, "Tests failed", w1, w2)
                   ELSE Continue(res, "sbom")
  /\ UNCHANGED <<beside_pipeline, manifest_file, executor, env, manifest, prov, publishers, pub_i, out, published,
                 ledger_file>>

\* sbom_path = SBOMBuilder().generate(REPO_PATH): raises when the command fails
Sbom ==
  /\ executor = "sovereign" /\ pc = "sbom"
  /\ \E o \in {"ok", "raise"}, w2 \in IoOutcome :
       /\ Call("sbom", "sbom", o, TRUE)
       /\ IF o = "raise"
            THEN Except(results, "SBOM generation failed", w2)
            ELSE Continue(SetStep(results, "sbom", [ok |-> TRUE, path |-> "sbom.json"]),
                          "provenance")
  /\ UNCHANGED <<beside_pipeline, manifest_file, executor, env, manifest, prov, publishers, pub_i, out, published,
                 ledger_file>>

\* prov = ProvenanceBuilder().generate(manifest, sbom_path)
Provenance ==
  /\ executor = "sovereign" /\ pc = "provenance"
  /\ \E io \in IoOutcome, w2 \in IoOutcome :
       LET p == ProvenanceBuilder_generate(manifest, io) IN
       IF IsRaised(p)
         THEN /\ Call("provenance", "provenance", "raise", TRUE)
              /\ prov' = prov
              /\ Except(results, p.raised, w2)
         ELSE /\ Call("provenance", "provenance", "ok", TRUE)
              /\ prov' = p
              /\ Continue(SetStep(results, "provenance",
                                  [ok |-> TRUE, path |-> PyStr(p["path"])]), "pbse_local")
  /\ UNCHANGED <<beside_pipeline, manifest_file, executor, env, manifest, publishers, pub_i, out, published, ledger_file>>

\* pbse_ok = self.pbse.validate(manifest, prov)
PbseLocal ==
  /\ executor = "sovereign" /\ pc = "pbse_local"
  /\ \E w1 \in IoOutcome, w2 \in IoOutcome :
       LET pbse_ok == PBSEValidator_validate(manifest, prov)
           res == SetStep(results, "pbse_local", [ok |-> pbse_ok]) IN
       /\ Call("pbse_local", "pbse_local", IF pbse_ok THEN "ok" ELSE "fail", TRUE)
       /\ IF pbse_blocks(pbse_ok)
            THEN Block(res, "PBSE BLOCK", w1, w2)
            ELSE Continue(res, "omega_gate")
  /\ UNCHANGED <<beside_pipeline, manifest_file, executor, env, manifest, prov, publishers, pub_i, out, published,
                 ledger_file>>

\* omega_ok = self.omega_gate.validate(manifest, prov)
OmegaGate ==
  /\ executor = "sovereign" /\ pc = "omega_gate"
  /\ \E http \in HttpAnswers, w1 \in IoOutcome, w2 \in IoOutcome :
       LET r == OmegaGateClient_validate(env.omega_url, manifest, prov, http)
           sent == OmegaRequestSent(env.omega_url, manifest, prov) IN
       IF IsRaised(r)
         THEN /\ Call("omega_gate", "omega_gate", "raise", sent)
              /\ Except(results, r.raised, w2)
         ELSE LET res == SetStep(results, "omega_gate", r) IN
              /\ Call("omega_gate", "omega_gate",
                      IF Get(r, "skipped", FALSE) THEN "skipped"
                      ELSE IF r.ok THEN "ok" ELSE "fail", sent)
              /\ IF step_blocks(r)
                   THEN Block(res, "Omega Gate BLOCK", w1, w2)
                   ELSE Continue(res, "sigstore")
  /\ UNCHANGED <<beside_pipeline, manifest_file, executor, env, manifest, prov, publishers, pub_i, out, published,
                 ledger_file>>

\* sigstore = SigstoreAttestor().attest(manifest)
Sigstore ==
  /\ executor = "sovereign" /\ pc = "sigstore"
  /\ \E cmd \in {"ok", "fail"}, w1 \in IoOutcome, w2 \in IoOutcome :
       LET r == SigstoreAttestor_attest(env.mode, cmd)
           res == SetStep(results, "sigstore", r) IN
       /\ Call("sigstore", "sigstore",
               IF Get(r, "skipped", FALSE) THEN "skipped"
               ELSE IF r.ok THEN "ok" ELSE "fail", ~Get(r, "skipped", FALSE))
       /\ IF step_blocks(r)
            THEN Block(res, "Sigstore attest failed", w1, w2)
            ELSE Continue(res, "load_publishers")
  /\ UNCHANGED <<beside_pipeline, manifest_file, executor, env, manifest, prov, publishers, pub_i, out, published,
                 ledger_file>>

\* publishers = load_publishers(), and the entry of self.publish()
LoadPublishers ==
  /\ executor = "sovereign" /\ pc = "load_publishers"
  /\ \E w2 \in IoOutcome :
       LET l == load_publishers(env.publishers) IN
       IF IsRaised(l)
         THEN /\ Except(results, l.raised, w2)
              /\ UNCHANGED <<publishers, pub_i, out>>
         ELSE /\ publishers' = l.loaded
              /\ pub_i' = 1
              /\ out' = EmptyDict
              /\ Continue(results, "publish")
  /\ UNCHANGED <<beside_pipeline, manifest_file, executor, env, manifest, prov, calls, published, ledger_file>>

\* self.publish(publishers, files, manifest): one turn of its for loop, or its end;
\* then lines 90-92 of run()
Publish ==
  /\ executor = "sovereign" /\ pc = "publish"
  /\ \E world \in PublisherWorld, w1 \in IoOutcome, w2 \in IoOutcome :
       IF publish_skipped(env.mode)
         THEN /\ Continue(SetStep(results, "publish",
                                  [skipped |-> TRUE, mode |-> env.mode]), "ledger")
              /\ UNCHANGED <<pub_i, out, calls, published>>
       ELSE IF pub_i > Len(publishers)
         THEN /\ IF publish_blocks(out)
                   THEN Block(SetStep(results, "publish", out), "Publish blocked", w1, w2)
                   ELSE Continue(SetStep(results, "publish", out), "ledger")
              /\ UNCHANGED <<pub_i, out, calls, published>>
       ELSE LET name == publishers[pub_i]
                r == Publisher_publish(name, manifest, world) IN
            /\ published' = IF Publisher_took_place(name, world)
                              THEN published \cup {name} ELSE published
            /\ IF IsRaised(r)
                 THEN /\ Call("publish", name, "raise", TRUE)
                      /\ Except(results, r.raised, w2)
                      /\ UNCHANGED <<pub_i, out>>
                 ELSE /\ Call("publish", name, IF r.ok THEN "ok" ELSE "fail", TRUE)
                      /\ out' = Put(out, name, r)
                      /\ IF ~Get(r, "ok", FALSE)
                           THEN /\ pub_i' = pub_i
                                /\ Block(SetStep(results, "publish",
                                                 [blocked |-> TRUE, details |-> out']),
                                         "Publish blocked", w1, w2)
                           ELSE /\ pub_i' = pub_i + 1
                                /\ Continue(results, "publish")
  /\ UNCHANGED <<beside_pipeline, manifest_file, executor, env, manifest, prov, publishers, ledger_file>>

\* ledger_result = self.ledger.write(self.results), and the end of the try block
Ledger ==
  /\ executor = "sovereign" /\ pc = "ledger"
  /\ \E io \in IoOutcome, w1 \in IoOutcome, w2 \in IoOutcome :
       LET r == LedgerWriter_result(io)
           res == SetStep(results, "ledger", r) IN
       /\ ledger_file' = LedgerWriter_write(ledger_file, results, io)
       /\ Call("ledger", "ledger", IF r.ok THEN "ok" ELSE "fail", TRUE)
       /\ IF step_blocks(r)
            THEN Block(res, "Ledger write failed", w1, w2)
            ELSE /\ now' = now + 1
                 /\ FinalReport(succeed(res, now), w2)
  /\ UNCHANGED <<beside_pipeline, manifest_file, executor, env, manifest, prov, publishers, pub_i, out, published>>

SovereignNext ==
  \/ Manifest \/ Tests \/ Sbom \/ Provenance \/ PbseLocal \/ OmegaGate
  \/ Sigstore \/ LoadPublishers \/ Publish \/ Ledger

(***************************************************************************)
(* DeployExecutor.execute (deploy_with_tests_and_tracing.py), stage by     *)
(* stage                                                                   *)
(***************************************************************************)
\* DeployExecutor.__init__: self.deploy_results
DeployResults == [trace_id |-> "t1", start_time |-> 0, success |-> FALSE,
                  steps |-> EmptyDict]

\* the except clause of execute(), the three assignments
deploy_handler(res, exc, t) ==
  Put(Put(Put(res, "success", FALSE), "error", exc), "end_time", t)

\* the end of the try block of execute(), before _save_report()
deploy_succeed(res, t) ==
  Put(Put(Put(res, "success", TRUE), "end_time", t), "duration_seconds", t)

\* _save_report: json.dump(self.deploy_results) into deploy_<trace_id>.json
save_report(reps, res) == Append(reps, res)

\* an exception raised inside the try block of execute(): the handler, its
\* _save_report(), return
DeployExcept(res, exc, w2) ==
  LET r1 == deploy_handler(res, exc, now) IN
  /\ now' = now + 1
  /\ results' = r1
  /\ IF w2 = "ok"
       THEN reports' = save_report(reports, r1) /\ pc' = "returned"
       ELSE reports' = reports /\ pc' = "escaped"

\* what the Omega-Gate endpoint may answer to validate_deploy: a request error, a
\* status other than 200, a 200 whose body is not a JSON object, or a JSON object
\* whose "decision" is PASS, something else, or absent
DeployHttpAnswers ==
  {[kind |-> "error"], [kind |-> "status"], [kind |-> "nondict"]}
    \cup {[kind |-> "dict", decision |-> d] : d \in {"PASS", "FAIL", "absent"}}

\* OmegaGateValidator.validate_deploy: the first component of its result
OmegaGateValidator_validate_deploy(http) ==
  IF http.kind = "dict" THEN http.decision = "PASS" ELSE FALSE

\* files_to_deploy = self._collect_deploy_files(); manifest = create_manifest(..)
DManifest ==
  /\ executor = "deploy" /\ pc = "d_manifest"
  /\ \E nfiles \in 0..MaxFiles, io \in IoOutcome, w2 \in IoOutcome :
       IF nfiles = 0
         THEN /\ Call("manifest", "manifest", "raise", FALSE)
              /\ manifest' = manifest
              /\ DeployExcept(results, "Nenhum arquivo para deploy encontrado", w2)
       ELSE IF io = "raise"
         THEN /\ Call("manifest", "manifest", "raise", TRUE)
              /\ manifest' = manifest
              /\ DeployExcept(results, "cannot read file", w2)
       ELSE /\ Call("manifest", "manifest", "ok", TRUE)
            /\ manifest' = [trace_id |-> results["trace_id"],
                            files |-> [i \in 1..nfiles |-> [path |-> i, sha3_512 |-> i]],
                            signature |-> "signed"]
            /\ Continue(SetStep(results, "manifest",
                                [success |-> TRUE, files_count |-> nfiles]), "d_tests")
  /\ UNCHANGED <<beside_pipeline, manifest_file, executor, env, prov, publishers, pub_i, out, published, ledger_file>>

\* test_results = self.test_runner.run_all_tests(): the three tests all run
TestNames == {"latex_build", "python_tests", "security_scan"}
DTests ==
  /\ executor = "deploy" /\ pc = "d_tests"
  /\ \E passed \in SUBSET TestNames, w2 \in IoOutcome :
       LET test_results == [n \in TestNames |-> [success |-> n \in passed]]
           res == SetStep(results, "tests", test_results)
           all_tests_passed == \A n \in TestNames : test_results[n].success IN
       /\ Call("tests", "tests", IF all_tests_passed THEN "ok" ELSE "fail", TRUE)
       /\ IF ~all_tests_passed
            THEN DeployExcept(res, "Testes falharam", w2)
            ELSE Continue(res, "d_omega")
  /\ UNCHANGED <<beside_pipeline, manifest_file, executor, env, manifest, prov, publishers, pub_i, out, published,
                 ledger_file>>

\* if self.config.require_omega_gate: validate_deploy(manifest, test_results)
DOmega ==
  /\ executor = "deploy" /\ pc = "d_omega"
  /\ \E http \in DeployHttpAnswers, w2 \in IoOutcome :
       IF ~env.require_omega_gate
         THEN Continue(results, "d_zenodo") /\ calls' = calls
         ELSE LET omega_ok == OmegaGateValidator_validate_deploy(http)
                  res == SetStep(results, "omega_gate",
                                 [success |-> omega_ok, details |-> http]) IN
              /\ Call("omega_gate", "omega_gate", IF omega_ok THEN "ok" ELSE "fail", TRUE)
              /\ IF ~omega_ok
                   THEN DeployExcept(res, "Omega-Gate rejeitou", w2)
                   ELSE Continue(res, "d_zenodo")
  /\ UNCHANGED <<beside_pipeline, manifest_file, executor, env, manifest, prov, publishers, pub_i, out, published,
                 ledger_file>>

\* if self.config.enable_zenodo and self.zenodo_publisher: _publish_to_zenodo
DZenodo ==
  /\ executor = "deploy" /\ pc = "d_zenodo"
  /\ \E world \in {"ok", "fail"}, w2 \in IoOutcome :
       IF ~(env.enable_zenodo /\ env.zenodo_token)
         THEN Continue(results, "d_github") /\ UNCHANGED <<calls, published>>
         ELSE LET res == SetStep(results, "zenodo", [success |-> world = "ok"]) IN
              /\ Call("publish", "zenodo", world, TRUE)
              /\ published' = IF world = "ok" THEN published \cup {"zenodo"}
                              ELSE published
              /\ IF world # "ok"
                   THEN DeployExcept(res, "Falha no Zenodo", w2)
                   ELSE Continue(res, "d_github")
  /\ UNCHANGED <<beside_pipeline, manifest_file, executor, env, manifest, prov, publishers, pub_i, out, ledger_file>>

\* if self.config.enable_github_push: _push_to_github
DGithub ==
  /\ executor = "deploy" /\ pc = "d_github"
  /\ \E world \in {"ok", "fail"}, w2 \in IoOutcome :
       IF ~env.enable_github_push
         THEN Continue(results, "d_orcid") /\ UNCHANGED <<calls, published>>
         ELSE LET res == SetStep(results, "github", [success |-> world = "ok"]) IN
              /\ Call("publish", "github", world, TRUE)
              /\ published' = IF world = "ok" THEN published \cup {"github"}
                              ELSE published
              /\ IF world # "ok"
                   THEN DeployExcept(res, "Falha no GitHub", w2)
                   ELSE Continue(res, "d_orcid")
  /\ UNCHANGED <<beside_pipeline, manifest_file, executor, env, manifest, prov, publishers, pub_i, out, ledger_file>>

\* if self.config.enable_orcid_update: _update_orcid (not implemented, its result
\* is not looked at); then success, _save_report() inside the try block, return
DOrcid ==
  /\ executor = "deploy" /\ pc = "d_orcid"
  /\ \E w1 \in IoOutcome, w2 \in IoOutcome :
       LET res == IF env.enable_orcid_update
                    THEN SetStep(results, "orcid", [success |-> FALSE])
                    ELSE results
           r1 == deploy_succeed(res, now)
           r2 == deploy_handler(r1, "report write failed", now + 1) IN
       /\ IF env.enable_orcid_update
            THEN Call("publish", "orcid", "fail", FALSE)
            ELSE calls' = calls
       /\ IF w1 = "ok"
            THEN /\ now' = now + 1
                 /\ results' = r1
                 /\ reports' = save_report(reports, r1)
                 /\ pc' = "returned"
            ELSE /\ now' = now + 2
                 /\ results' = r2
                 /\ IF w2 = "ok"
                      THEN reports' = save_report(reports, r2) /\ pc' = "returned"
                      ELSE reports' = reports /\ pc' = "escaped"
  /\ UNCHANGED <<beside_pipeline, manifest_file, executor, env, manifest, prov, publishers, pub_i, out, published,
                 ledger_file>>

DeployNext == DManifest \/ DTests \/ DOmega \/ DZenodo \/ DGithub \/ DOrcid

(***************************************************************************)
(* ScientificMerkleLedger (matverse-core/core/ledger/merkle_ledger.py)     *)
(*                                                                         *)
(* A Python str is a sequence of tokens, "" is <<>>.  sha3_256 is          *)
(* collision-free: a digest is the hashed text between two marks, so two   *)
(* digests are equal exactly when the hashed texts are.                    *)
(***************************************************************************)
\* most entries a ledger holds
MaxEntries == 3

\* Python's None, and a value that is not None
None == [none |-> TRUE]
Some(v) == [some |-> v]
IsNone(v) == "none" \in DOMAIN v
\* Python's "not v" for an Optional[list]
py_not(v) == IsNone(v) \/ v.some = <<>>

\* hashlib.sha3_256(data).hexdigest()
sha3_256(data) == <<"sha3(">> \o data \o <<")">>

\* LedgerEntry(...): the entries a caller makes, as in the module's example; the
\* dataclass lets the caller leave previous_hash at its default "" or set it.
\* entry_type, timestamp, author_orcid, metadata and signature are the same in
\* every entry of the model
LedgerEntry ==
  {[entry_id |-> "paper_001", content_hash |-> "abc123def456",
    previous_hash |-> <<>>],
   [entry_id |-> "review_001", content_hash |-> "def456ghi789",
    previous_hash |-> <<"set by caller">>]}

\* LedgerEntry.to_json: json.dumps(asdict(self), sort_keys=True)
to_json(e) == <<e.content_hash, e.entry_id>> \o e.previous_hash
\* a hash that leaves content_hash out
compute_hash_without_content(e) == sha3_256(<<e.entry_id>> \o e.previous_hash)
\* LedgerEntry.compute_hash
compute_hash(e) == sha3_256(to_json(e))

\* MerkleTools.reset_tree
reset_tree == [leaves |-> <<>>, levels |-> <<>>, is_ready |-> FALSE]
\* MerkleTools.add_leaf(value, do_hash=False)
add_leaf(mt, value) == [mt EXCEPT !.leaves = Append(@, value)]
\* MerkleTools._calculate_next_level: hash the nodes of a level in pairs, a last
\* node without a partner is carried up unchanged
calculate_next_level(level) ==
  LET N == Len(level) - (Len(level) % 2)
      new_level == [k \in 1..(N \div 2) |-> sha3_256(level[2 * k - 1] \o level[2 * k])]
  IN  IF Len(level) % 2 = 1 THEN Append(new_level, level[Len(level)]) ELSE new_level
\* the while loop of MerkleTools.make_tree; levels[1] is the top level
RECURSIVE build_levels(_)
build_levels(levels) ==
  IF Len(levels[1]) > 1
    THEN build_levels(<<calculate_next_level(levels[1])>> \o levels)
    ELSE levels
\* MerkleTools.make_tree
make_tree(mt) ==
  IF Len(mt.leaves) > 0
    THEN [mt EXCEPT !.levels = build_levels(<<mt.leaves>>), !.is_ready = TRUE]
    ELSE [mt EXCEPT !.is_ready = TRUE]
\* MerkleTools.get_merkle_root
MerkleTools_get_merkle_root(mt) ==
  IF mt.is_ready /\ mt.levels # <<>> THEN Some(mt.levels[1][1]) ELSE None
\* the for loop of MerkleTools.get_proof, from the leaf level x up to the level
\* below the root; index counts from 0 as in Python
RECURSIVE proof_path(_, _, _)
proof_path(levels, x, index) ==
  IF x <= 1 THEN <<>>
  ELSE LET level == levels[x]
           level_len == Len(level)
       IN  IF index = level_len - 1 /\ level_len % 2 = 1
             THEN proof_path(levels, x - 1, index \div 2)
             ELSE LET is_right_node == index % 2 = 1
                      sibling_index == IF is_right_node THEN index - 1 ELSE index + 1
                      sibling_pos == IF is_right_node THEN "left" ELSE "right"
                  IN  <<[pos |-> sibling_pos, value |-> level[sibling_index + 1]]>>
                        \o proof_path(levels, x - 1, index \div 2)
\* MerkleTools.get_proof
MerkleTools_get_proof(mt, index) ==
  IF mt.levels = <<>> THEN None
  ELSE IF ~mt.is_ready \/ index > Len(mt.leaves) - 1 \/ index < 0 THEN None
  ELSE Some(proof_path(mt.levels, Len(mt.levels), index))
\* the for loop of MerkleTools.validate_proof
RECURSIVE proof_hash(_, _)
proof_hash(proof, h) ==
  IF proof = <<>> THEN h
  ELSE proof_hash(Tail(proof),
                  IF Head(proof).pos = "left"
                    THEN sha3_256(Head(proof).value \o h)
                    ELSE sha3_256(h \o Head(proof).value))
\* MerkleTools.validate_proof
validate_proof(proof, target_hash, merkle_root) ==
  IF Len(proof) = 0 THEN target_hash = merkle_root
  ELSE proof_hash(proof, target_hash) = merkle_root

\* ScientificMerkleLedger.__init__
LedgerInit ==
  /\ objects = <<>>
  /\ ledger = <<>>
  /\ merkle_tools = reset_tree
  /\ last_op = [op |-> "__init__"]
  /\ modified = {}
  /\ aliased = FALSE

\* self.ledger[entry_index], entry_index counting from 0 as in Python
entry_at(objs, led, entry_index) == objs[led[entry_index + 1]]

\* the for loop of rebuild_tree: one leaf per stored entry, its hash as it is now
RECURSIVE add_leaves(_, _, _, _)
add_leaves(mt, objs, led, k) ==
  IF k > Len(led) THEN mt
  ELSE add_leaves(add_leaf(mt, compute_hash(objs[led[k]])), objs, led, k + 1)
\* ScientificMerkleLedger.rebuild_tree
rebuild_tree(objs, led) ==
  LET mt == add_leaves(reset_tree, objs, led, 1)
  IN  IF led # <<>> THEN make_tree(mt) ELSE mt

\* ScientificMerkleLedger.get_merkle_root
get_merkle_root(led, mt) ==
  IF led # <<>> THEN MerkleTools_get_merkle_root(mt) ELSE None

\* ScientificMerkleLedger.get_proof
get_proof(led, mt, entry_index) ==
  IF 0 <= entry_index /\ entry_index < Len(led)
    THEN MerkleTools_get_proof(mt, entry_index)
    ELSE None

\* ScientificMerkleLedger.verify_entry
verify_entry(objs, led, mt, entry_index) ==
  IF entry_index < 0 \/ entry_index >= Len(led) THEN FALSE
  ELSE LET entry_hash == compute_hash(entry_at(objs, led, entry_index))
           proof == get_proof(led, mt, entry_index)
       IN  IF py_not(proof) THEN FALSE
           ELSE validate_proof(proof.some, entry_hash, get_merkle_root(led, mt).some)

\* the for loop of verify_chain, from position i on
RECURSIVE verify_chain_from(_, _, _, _)
verify_chain_from(objs, led, mt, i) ==
  IF i >= Len(led) THEN TRUE
  ELSE IF ~verify_entry(objs, led, mt, i) THEN FALSE
  ELSE IF i > 0 /\ entry_at(objs, led, i).previous_hash
                     # compute_hash(entry_at(objs, led, i - 1)) THEN FALSE
  ELSE verify_chain_from(objs, led, mt, i + 1)
\* ScientificMerkleLedger.verify_chain
verify_chain(objs, led, mt) ==
  IF led = <<>> THEN TRUE ELSE verify_chain_from(objs, led, mt, 0)

\* ScientificMerkleLedger.create_evidence_receipt; the fields receipt_id and
\* timestamp, which depend on time.time() alone, are left out
create_evidence_receipt(objs, led, mt, entry_index) ==
  IF entry_index < 0 \/ entry_index >= Len(led) THEN EmptyDict
  ELSE LET entry == entry_at(objs, led, entry_index) IN
       [entry |-> entry,
        merkle_proof |-> get_proof(led, mt, entry_index),
        merkle_root |-> get_merkle_root(led, mt),
        chain_position |-> [index |-> entry_index, total_entries |-> Len(led)],
        verification_data |->
          [entry_hash |-> compute_hash(entry),
           proof_valid |-> verify_entry(objs, led, mt, entry_index),
           chain_valid |-> verify_chain(objs, led, mt)]]

\* ScientificMerkleLedger.add_entry(entry), entry being the object ref of objs:
\* the objects, the ledger and the tree after the call, and the value returned
add_entry(objs, led, ref) ==
  LET objs1 == IF led # <<>>
                 THEN [objs EXCEPT ![ref].previous_hash =
                                      compute_hash(objs[led[Len(led)]])]
                 ELSE objs
      led1 == Append(led, ref)
  IN  [objects |-> objs1, ledger |-> led1,
       merkle_tools |-> rebuild_tree(objs1, led1),
       result |-> objs1[ref].entry_id]

\* the indices a caller passes: every position and one outside on either side
Indices(led) == -1..Len(led)
\* the content a stored entry is overwritten with: a value no caller appended
ForgedContentHashes == {"forged"}

\* ledger.add_entry(entry): the caller passes a LedgerEntry it has just made, or
\* an object that is already stored in this ledger
AddEntry ==
  /\ Len(ledger) < MaxEntries
  /\ \E ref \in 1..(Len(objects) + 1) :
       \E e \in IF ref > Len(objects) THEN LedgerEntry ELSE {objects[ref]} :
         LET objs == IF ref > Len(objects) THEN Append(objects, e) ELSE objects
             r == add_entry(objs, ledger, ref) IN
         /\ objects' = r.objects
         /\ ledger' = r.ledger
         /\ merkle_tools' = r.merkle_tools
         /\ last_op' = [op |-> "add_entry", ref |-> ref, result |-> r.result]
         /\ aliased' = (aliased \/ ref <= Len(objects))
  /\ UNCHANGED modified
  /\ UNCHANGED beside_ledger

\* outside the ledger's operations: code holding a reference to a stored entry
\* (ledger.ledger[i], or the object it passed to add_entry) overwrites its content
Tamper ==
  /\ \E i \in 0..(Len(ledger) - 1), c \in ForgedContentHashes :
       LET ref == ledger[i + 1] IN
       /\ objects[ref].content_hash \notin ForgedContentHashes
       /\ objects' = [objects EXCEPT ![ref].content_hash = c]
       /\ modified' = modified \cup {ref}
       /\ last_op' = [op |-> "tamper", index |-> i]
  /\ UNCHANGED <<ledger, merkle_tools, aliased>>
  /\ UNCHANGED beside_ledger

\* ledger.rebuild_tree()
RebuildTree ==
  /\ merkle_tools' = rebuild_tree(objects, ledger)
  /\ last_op' = [op |-> "rebuild_tree"]
  /\ UNCHANGED <<objects, ledger, modified, aliased>>
  /\ UNCHANGED beside_ledger

\* ledger.get_merkle_root()
GetMerkleRoot ==
  /\ last_op' = [op |-> "get_merkle_root", result |-> get_merkle_root(ledger, merkle_tools)]
  /\ UNCHANGED <<objects, ledger, merkle_tools, modified, aliased>>
  /\ UNCHANGED beside_ledger

\* ledger.get_proof(entry_index)
GetProof ==
  /\ \E i \in Indices(ledger) :
       last_op' = [op |-> "get_proof", index |-> i,
                   result |-> get_proof(ledger, merkle_tools, i)]
  /\ UNCHANGED <<objects, ledger, merkle_tools, modified, aliased>>
  /\ UNCHANGED beside_ledger

\* ledger.verify_entry(entry_index)
VerifyEntry ==
  /\ \E i \in Indices(ledger) :
       last_op' = [op |-> "verify_entry", index |-> i,
                   result |-> verify_entry(objects, ledger, merkle_tools, i)]
  /\ UNCHANGED <<objects, ledger, merkle_tools, modified, aliased>>
  /\ UNCHANGED beside_ledger

\* ledger.verify_chain()
VerifyChain ==
  /\ last_op' = [op |-> "verify_chain",
                 result |-> verify_chain(objects, ledger, merkle_tools)]
  /\ UNCHANGED <<objects, ledger, merkle_tools, modified, aliased>>
  /\ UNCHANGED beside_ledger

\* ledger.create_evidence_receipt(entry_index)
CreateEvidenceReceipt ==
  /\ \E i \in Indices(ledger) :
       last_op' = [op |-> "create_evidence_receipt", index |-> i,
                   result |-> create_evidence_receipt(objects, ledger, merkle_tools, i)]
  /\ UNCHANGED <<objects, ledger, merkle_tools, modified, aliased>>
  /\ UNCHANGED beside_ledger

LedgerNext ==
  \/ AddEntry \/ Tamper \/ RebuildTree \/ GetMerkleRoot \/ GetProof
  \/ VerifyEntry \/ VerifyChain \/ CreateEvidenceReceipt

(***************************************************************************)
(* The parts of the state a program does not use                           *)
(***************************************************************************)
\* the threads of a program that shares one ScientificMerkleLedger
Threads == {"thread A", "thread B"}
\* no thread is inside add_entry
NoThreads ==
  /\ t_pc = [t \in Threads |-> "idle"]
  /\ t_entry = [t \in Threads |-> 0]
  /\ t_k = [t \in Threads |-> 0]
\* no LedgerWriter log is written
NoWriter ==
  /\ log_file = <<>>
  /\ lines_before = <<>>
  /\ ok_records = <<>>
  /\ write_results = <<>>
  /\ write_count = 0
\* no second run beside the one of the pipeline
NoRuns ==
  /\ run_env = <<>>
  /\ run_pc = <<>>
  /\ run_manifest = <<>>
  /\ cwd_files = <<>>
  /\ registry = <<>>
  /\ consumed = <<>>
\* no identity chain
NoChain ==
  /\ chain = <<>>
  /\ made = None
  /\ replaced = {}
  /\ relinked = {}
  /\ verified = None
  /\ reported = None
  /\ sliced = None
\* no governance decision
NoGate ==
  /\ gate = <<>>
  /\ metrics = <<>>
  /\ decision = None
  /\ first_decision = None
  /\ psi_set = FALSE
  /\ explanation = None
\* no separate manifest build
NoBuild ==
  /\ build_files = <<>>
  /\ build_key = ""
  /\ built = None
  /\ built_permuted = None
  /\ built_file = None
\* no publication attempt on Zenodo
NoZenodo ==
  /\ z_client = ""
  /\ z_pc = "done"
  /\ z_files = 0
  /\ z_created = FALSE
  /\ z_uploads = <<>>
  /\ z_published = FALSE
  /\ z_result = None
\* no Cerberos object
NoCerberos ==
  /\ c_history = None
  /\ c_window = <<>>
  /\ c_pc = "idle"
  /\ c_context = <<>>
  /\ c_results = <<>>

(***************************************************************************)
(* Specification                                                           *)
(***************************************************************************)
Init ==
  /\ env \in SovereignEnvs \cup DeployEnvs
  /\ executor = env.executor
  /\ pc = IF executor = "sovereign" THEN "manifest" ELSE "d_manifest"
  /\ now = 1
  /\ results = IF executor = "sovereign" THEN SovereignResults(env) ELSE DeployResults
  /\ manifest = EmptyDict
  /\ prov = EmptyDict
  /\ publishers = <<>>
  /\ pub_i = 0
  /\ out = EmptyDict
  /\ calls = <<>>
  /\ published = {}
  /\ reports = <<>>
  /\ ledger_file = <<>>
  /\ manifest_file = <<>>
  /\ LedgerInit
  /\ NoThreads /\ NoWriter /\ NoRuns /\ NoChain /\ NoGate /\ NoBuild /\ NoZenodo /\ NoCerberos

Next == SovereignNext \/ DeployNext

Spec == Init /\ [][Next]_vars

\* no pipeline run: a program that only uses a ScientificMerkleLedger
NoRun ==
  /\ executor = "none"
  /\ env = [executor |-> "none"]
  /\ pc = "none"
  /\ now = 1
  /\ results = EmptyDict
  /\ manifest = EmptyDict
  /\ prov = EmptyDict
  /\ publishers = <<>>
  /\ pub_i = 0
  /\ out = EmptyDict
  /\ calls = <<>>
  /\ published = {}
  /\ reports = <<>>
  /\ ledger_file = <<>>
  /\ manifest_file = <<>>

InitLedger ==
  /\ NoRun /\ LedgerInit
  /\ NoThreads /\ NoWriter /\ NoRuns /\ NoChain /\ NoGate /\ NoBuild /\ NoZenodo /\ NoCerberos

SpecLedger == InitLedger /\ [][LedgerNext]_vars

(***************************************************************************)
(* Threads that call add_entry on one ledger                               *)
(*                                                                         *)
(* add_entry (merkle_ledger.py 49-64) and rebuild_tree (66-75) take no     *)
(* lock, so another thread may run between any two of their statements.    *)
(* One action is one statement of the two methods, run by one thread.      *)
(***************************************************************************)
\* what a statement of add_entry leaves alone, besides the ledger and the threads
beside_threads == <<pipeline_vars, writer_vars, runs_vars, identity_vars, gate_vars,
                    build_vars,
                    zenodo_vars,
                    cerberos_vars>>

\* a thread makes a LedgerEntry of its own and calls ledger.add_entry(entry)
ThreadCall(t) ==
  /\ t_pc[t] = "idle"
  /\ Len(objects) < MaxCalls
  /\ \E e \in LedgerEntry : objects' = Append(objects, e)
  /\ t_entry' = [t_entry EXCEPT ![t] = Len(objects) + 1]
  /\ t_pc' = [t_pc EXCEPT ![t] = "set_previous"]
  /\ UNCHANGED <<ledger, merkle_tools, last_op, modified, aliased, t_k>>
  /\ UNCHANGED beside_threads

\* if self.ledger: entry.previous_hash = self.ledger[-1].compute_hash()
SetPreviousHash(t) ==
  /\ t_pc[t] = "set_previous"
  /\ objects' = IF ledger # <<>>
                  THEN [objects EXCEPT ![t_entry[t]].previous_hash =
                                         compute_hash(objects[ledger[Len(ledger)]])]
                  ELSE objects
  /\ t_pc' = [t_pc EXCEPT ![t] = "append"]
  /\ UNCHANGED <<ledger, merkle_tools, last_op, modified, aliased, t_entry, t_k>>
  /\ UNCHANGED beside_threads

\* self.ledger.append(entry)
AppendEntry(t) ==
  /\ t_pc[t] = "append"
  /\ ledger' = Append(ledger, t_entry[t])
  /\ t_pc' = [t_pc EXCEPT ![t] = "reset_tree"]
  /\ UNCHANGED <<objects, merkle_tools, last_op, modified, aliased, t_entry, t_k>>
  /\ UNCHANGED beside_threads

\* rebuild_tree: self.merkle_tools.reset_tree(), and the for loop starts
ResetTree(t) ==
  /\ t_pc[t] = "reset_tree"
  /\ merkle_tools' = reset_tree
  /\ t_k' = [t_k EXCEPT ![t] = 1]
  /\ t_pc' = [t_pc EXCEPT ![t] = "add_leaf"]
  /\ UNCHANGED <<objects, ledger, last_op, modified, aliased, t_entry>>
  /\ UNCHANGED beside_threads

\* rebuild_tree: one turn of 'for entry in self.ledger', which sees the list as
\* it is when the turn starts, or the end of the loop
AddLeaf(t) ==
  /\ t_pc[t] = "add_leaf"
  /\ IF t_k[t] <= Len(ledger)
       THEN /\ merkle_tools' = add_leaf(merkle_tools, compute_hash(objects[ledger[t_k[t]]]))
            /\ t_k' = [t_k EXCEPT ![t] = @ + 1]
            /\ UNCHANGED t_pc
       ELSE /\ t_pc' = [t_pc EXCEPT ![t] = "make_tree"]
            /\ UNCHANGED <<merkle_tools, t_k>>
  /\ UNCHANGED <<objects, ledger, last_op, modified, aliased, t_entry>>
  /\ UNCHANGED beside_threads

\* rebuild_tree: if self.ledger: self.merkle_tools.make_tree(); then add_entry
\* returns entry.entry_id
MakeTree(t) ==
  /\ t_pc[t] = "make_tree"
  /\ merkle_tools' = IF ledger # <<>> THEN make_tree(merkle_tools) ELSE merkle_tools
  /\ last_op' = [op |-> "add_entry", ref |-> t_entry[t],
                 result |-> objects[t_entry[t]].entry_id]
  /\ t_pc' = [t_pc EXCEPT ![t] = "idle"]
  /\ UNCHANGED <<objects, ledger, modified, aliased, t_entry, t_k>>
  /\ UNCHANGED beside_threads

ThreadNext ==
  \E t \in Threads :
    \/ ThreadCall(t)
    \/ SetPreviousHash(t)
    \/ AppendEntry(t)
    \/ ResetTree(t)
    \/ AddLeaf(t)
    \/ MakeTree(t)

SpecThreads == InitLedger /\ [][ThreadNext]_vars

\* every add_entry call that was made has returned
ThreadsIdle == \A t \in Threads : t_pc[t] = "idle"
\* entry[i].previous_hash = hash(entry[i-1]) for every i > 0
ChainLinked(objs, led) ==
  \A i \in 1..(Len(led) - 1) :
    entry_at(objs, led, i).previous_hash = compute_hash(entry_at(objs, led, i - 1))

(***************************************************************************)
(* LedgerWriter (tools/exocortex_executor/ledger.py) used by several runs  *)
(*                                                                         *)
(* Every run has a LedgerWriter of its own; all of them append to the same *)
(* file.  One action is one call of write: the file is opened with mode    *)
(* "a", so the line goes to the end of the file as it is at that moment,   *)
(* and whatever is raised inside the try block (by mkdir, open, json.dumps *)
(* or the write) becomes the result ok = False.                            *)
(***************************************************************************)
\* the runs that hold a LedgerWriter
Writers == {"run A", "run B"}
\* the records the runs write
WrittenRecords == {[trace_id |-> "t1"], [trace_id |-> "t2"]}
\* what the log file may hold before the runs start
LinesBefore == {<<>>, <<[trace_id |-> "t0"]>>}

beside_writer == <<pipeline_vars, ledger_vars, thread_vars, runs_vars, identity_vars,
                   gate_vars, build_vars,
                   zenodo_vars,
                   cerberos_vars>>

\* self.ledger.write(record) by one of the runs
Write(w) ==
  /\ write_count < MaxWrites
  /\ write_count' = write_count + 1
  /\ \E record \in WrittenRecords, io \in IoOutcome :
       LET r == LedgerWriter_result(io) IN
       /\ log_file' = LedgerWriter_write(log_file, record, io)
       /\ write_results' = Put(write_results, w, r)
       /\ ok_records' = IF r.ok THEN Append(ok_records, record) ELSE ok_records
  /\ UNCHANGED lines_before
  /\ UNCHANGED beside_writer

WriterNext == \E w \in Writers : Write(w)

InitWriter ==
  /\ NoRun /\ LedgerInit /\ NoThreads /\ NoRuns /\ NoChain /\ NoGate /\ NoBuild /\ NoZenodo /\ NoCerberos
  /\ lines_before \in LinesBefore
  /\ log_file = lines_before
  /\ ok_records = <<>>
  /\ write_results = <<>>
  /\ write_count = 0

SpecWriter == InitWriter /\ [][WriterNext]_vars

(***************************************************************************)
(* Two runs of SovereignExecutor in one working directory                  *)
(*                                                                         *)
(* The stages of run() that read or write what another run can reach: the  *)
(* constructor (MetricsCollector registers a counter in the registry of    *)
(* the process), the manifest stage (writes manifest.json), the provenance *)
(* stage (reads the manifest it is passed) and the attestation stage       *)
(* (passes the path of manifest.json to cosign, which reads the file).     *)
(* One action is one of these stages of one run; the two runs interleave.  *)
(***************************************************************************)
Runs == {"run A", "run B"}
\* SovereignExecutor._trace_id: a fresh random id for every run
TraceId(r) == IF r = "run A" THEN "trace A" ELSE "trace B"
\* EXECUTOR_MODE, whether prometheus_client can be imported, and whether the two
\* runs are two executors of one process or two processes
RunEnvs == [mode : {"dry-run", "production"}, prometheus_client : BOOLEAN,
            one_process : BOOLEAN]
\* the process a run executes in
Process(r) == IF run_env.one_process THEN "run A" ELSE r

\* MetricsCollector.__init__: Counter("matverse_deploy_total", ...) registers the
\* name in the registry of the process and raises ValueError if it is there already
MetricsCollector_init(reg, importable) ==
  IF ~importable THEN [registry |-> reg]
  ELSE IF "matverse_deploy_total" \in reg
    THEN Raised("Duplicated timeseries in CollectorRegistry")
    ELSE [registry |-> reg \cup {"matverse_deploy_total"}]

\* the file cosign reads: MATVERSE_SIGSTORE_PREDICATE, by default str(manifest["path"])
SigstoreAttestor_predicate(m) == PyStr(m["path"])

beside_runs == <<pipeline_vars, ledger_vars, thread_vars, writer_vars, identity_vars,
                 gate_vars, build_vars,
                 zenodo_vars,
                 cerberos_vars>>

\* SovereignExecutor(): self.metrics = MetricsCollector(self.trace_id)
StartRun(r) ==
  /\ run_pc[r] = "new"
  /\ LET c == MetricsCollector_init(registry[Process(r)], run_env.prometheus_client) IN
       IF IsRaised(c)
         THEN /\ run_pc' = [run_pc EXCEPT ![r] = "raised"]
              /\ UNCHANGED registry
         ELSE /\ run_pc' = [run_pc EXCEPT ![r] = "manifest"]
              /\ registry' = [registry EXCEPT ![Process(r)] = c.registry]
  /\ UNCHANGED <<run_env, run_manifest, cwd_files, consumed>>
  /\ UNCHANGED beside_runs

\* manifest = ManifestBuilder(self.trace_id).build(files)
RunManifest(r) ==
  /\ run_pc[r] = "manifest"
  /\ \E nfiles \in 1..MaxFiles :
       LET m == ManifestBuilder_build(TraceId(r), nfiles, TRUE, "ok") IN
       /\ run_manifest' = [run_manifest EXCEPT ![r] = m]
       /\ cwd_files' = Put(cwd_files, PyStr(m["path"]), ManifestBuilder_written(m))
  /\ run_pc' = [run_pc EXCEPT ![r] = "provenance"]
  /\ UNCHANGED <<run_env, registry, consumed>>
  /\ UNCHANGED beside_runs

\* prov = ProvenanceBuilder().generate(manifest, sbom_path): reads the dict
RunProvenance(r) ==
  /\ run_pc[r] = "provenance"
  /\ consumed' = [consumed EXCEPT ![r] =
                    Put(@, "provenance", ManifestBuilder_written(run_manifest[r]))]
  /\ run_pc' = [run_pc EXCEPT ![r] = "sigstore"]
  /\ UNCHANGED <<run_env, run_manifest, cwd_files, registry>>
  /\ UNCHANGED beside_runs

\* attestation = SigstoreAttestor().attest(manifest): in production cosign reads
\* the predicate file as it is on disk at that moment
RunSigstore(r) ==
  /\ run_pc[r] = "sigstore"
  /\ consumed' = IF run_env.mode = "production"
                   THEN [consumed EXCEPT ![r] =
                           Put(@, "sigstore",
                               cwd_files[SigstoreAttestor_predicate(run_manifest[r])])]
                   ELSE consumed
  /\ run_pc' = [run_pc EXCEPT ![r] = "returned"]
  /\ UNCHANGED <<run_env, run_manifest, cwd_files, registry>>
  /\ UNCHANGED beside_runs

RunsNext ==
  \E r \in Runs : StartRun(r) \/ RunManifest(r) \/ RunProvenance(r) \/ RunSigstore(r)

InitRuns ==
  /\ NoRun /\ LedgerInit /\ NoThreads /\ NoWriter /\ NoChain /\ NoGate /\ NoBuild /\ NoZenodo /\ NoCerberos
  /\ run_env \in RunEnvs
  /\ run_pc = [r \in Runs |-> "new"]
  /\ run_manifest = [r \in Runs |-> EmptyDict]
  /\ cwd_files = EmptyDict
  /\ registry = [r \in Runs |-> {}]
  /\ consumed = [r \in Runs |-> EmptyDict]

SpecRuns == InitRuns /\ [][RunsNext]_vars

(***************************************************************************)
(* The identity chain of the OHASH engine                                  *)
(*   matverse-core/core/identity/ohash.py  (OHashEngine)                   *)
(*                                                                         *)
(* One behaviour is one chain: create_author_chain makes it, code that     *)
(* holds the list may overwrite a record's stored ohash or put a re-made   *)
(* record in its place, and verify_chain is called on it.  JSON text and   *)
(* digests are sequences of tokens, as in the ledger part.                 *)
(***************************************************************************)
\* the ORCID of the author and the lists of artifacts (str objects) a chain is
\* made for: papers and code in turn, of every length up to the bound
Orcids == {"0009-0008-2973-4047"}
ArtifactLists ==
  {[i \in 1..n |-> IF i % 2 = 1 THEN "paper" ELSE "code"] : n \in 0..MaxArtifacts}
\* json.dumps of a small int
JsonDigits == <<"0", "1", "2", "3", "4", "5", "6", "7", "8", "9">>
json_number(n) == JsonDigits[n + 1]

\* OHashPayload.to_json: json.dumps(asdict(self), sort_keys=True)
OHashPayload_to_json(p) ==
  <<"artifact_hash">> \o p.artifact_hash
    \o <<"author_signature">> \o p.author_signature
    \o <<"metadata",
         "artifact_index", json_number(p.metadata.artifact_index),
         "artifact_type", p.metadata.artifact_type,
         "total_artifacts", json_number(p.metadata.total_artifacts)>>
    \o <<"orcid", p.orcid>>
    \o <<"prev_ohash">> \o p.prev_ohash
    \o <<"timestamp", json_number(p.timestamp)>>

\* OHashEngine.generate_ohash with hash_algorithm "sha3_256"; t is time.time()
generate_ohash(payload, t) ==
  LET ohash == sha3_256(OHashPayload_to_json(payload)) IN
  [ohash |-> ohash,
   full_payload |-> [ohash |-> ohash, payload |-> payload,
                     algorithm |-> "sha3_256", generated_at |-> t]]

\* OHashEngine._hash_artifact of a str
hash_artifact(artifact) == sha3_256(<<artifact>>)

\* a loop body that starts every record with an empty prev_ohash
chain_record_unlinked(orcid, artifacts, i, prev_ohash) ==
  generate_ohash([orcid |-> orcid,
                  artifact_hash |-> hash_artifact(artifacts[i + 1]),
                  timestamp |-> i + 1,
                  metadata |-> [artifact_index |-> i, artifact_type |-> "str",
                                total_artifacts |-> Len(artifacts)],
                  prev_ohash |-> <<>>,
                  author_signature |-> <<>>], i + 1)
\* the body of the for loop of create_author_chain, turn i (from 0): the payload
\* and its ohash; time.time() is a clock that shows i + 1 in turn i
chain_record(orcid, artifacts, i, prev_ohash) ==
  generate_ohash([orcid |-> orcid,
                  artifact_hash |-> hash_artifact(artifacts[i + 1]),
                  timestamp |-> i + 1,
                  metadata |-> [artifact_index |-> i, artifact_type |-> "str",
                                total_artifacts |-> Len(artifacts)],
                  prev_ohash |-> prev_ohash,
                  author_signature |-> <<>>], i + 1)
\* the for loop of create_author_chain
RECURSIVE create_author_chain_from(_, _, _, _, _)
create_author_chain_from(orcid, artifacts, i, prev_ohash, made_so_far) ==
  IF i >= Len(artifacts) THEN made_so_far
  ELSE LET g == chain_record(orcid, artifacts, i, prev_ohash) IN
       create_author_chain_from(orcid, artifacts, i + 1, g.ohash,
                                Append(made_so_far, g.full_payload))
\* OHashEngine.create_author_chain
create_author_chain(orcid, artifacts) ==
  create_author_chain_from(orcid, artifacts, 0, <<>>, <<>>)

\* a verifier that does not compare the digest
digest_unchecked(current) == TRUE
\* verify_chain, "Verify hash calculation": the digest recomputed from the stored
\* payload against the stored ohash
digest_matches(current) ==
  generate_ohash(current.payload, 0).ohash = current.ohash
\* a link test that also wants the first record to be a genesis record
link_matches_genesis(c, i) ==
  IF i > 0 THEN c[i + 1].payload.prev_ohash = c[i].ohash
  ELSE c[1].payload.prev_ohash = <<>>
\* verify_chain, "Verify chain links": position i counts from 0
link_matches(c, i) ==
  i > 0 => c[i + 1].payload.prev_ohash = c[i].ohash
\* the for loop of verify_chain
RECURSIVE verify_author_chain_from(_, _)
verify_author_chain_from(c, i) ==
  IF i >= Len(c) THEN TRUE
  ELSE IF ~digest_matches(c[i + 1]) THEN FALSE
  ELSE IF ~link_matches(c, i) THEN FALSE
  ELSE verify_author_chain_from(c, i + 1)
\* a verify_chain without the test of lines 103-104: the empty chain passes
OHashEngine_verify_chain_vacuous(c) == verify_author_chain_from(c, 0)
\* OHashEngine.verify_chain
OHashEngine_verify_chain(c) ==
  IF c = <<>> THEN FALSE ELSE verify_author_chain_from(c, 0)

\* the positions of a chain at which verification finds something wrong
FailingPositions(c) ==
  {i \in 0..(Len(c) - 1) : ~digest_matches(c[i + 1]) \/ ~link_matches(c, i)}
\* the smallest of a non-empty set of positions
Earliest(S) == CHOOSE i \in S : \A j \in S : i <= j

\* the values a stored ohash is overwritten with: one that is no digest, or the
\* ohash of another record
OtherOhashes(c, k) == {<<"forged">>} \cup {c[j].ohash : j \in DOMAIN c \ {k + 1}}

beside_identity == <<pipeline_vars, ledger_vars, thread_vars, writer_vars, runs_vars,
                     gate_vars, build_vars,
                     zenodo_vars,
                     cerberos_vars>>

\* chain = engine.create_author_chain(orcid, artifacts)
CreateAuthorChain ==
  /\ IsNone(made)
  /\ \E orcid \in Orcids, artifacts \in ArtifactLists :
       LET c == create_author_chain(orcid, artifacts) IN
       /\ chain' = c
       /\ made' = Some(c)
  /\ UNCHANGED <<replaced, relinked, verified, reported, sliced>>
  /\ UNCHANGED beside_identity

\* outside the engine: chain[k]["ohash"] = another value
ReplaceOhash ==
  /\ ~IsNone(made)
  /\ \E k \in 0..(Len(chain) - 1) :
       /\ k \notin replaced \cup relinked
       /\ \E v \in OtherOhashes(chain, k) :
            /\ v # chain[k + 1].ohash
            /\ chain' = [chain EXCEPT ![k + 1].ohash = v]
       /\ replaced' = replaced \cup {k}
  /\ verified' = None
  /\ sliced' = None
  /\ UNCHANGED <<made, relinked, reported>>
  /\ UNCHANGED beside_identity

\* outside the engine: chain[k] = a record generated from the payload of record k
\* with another prev_ohash; its digest is right, its link is not
Relink ==
  /\ ~IsNone(made)
  /\ \E k \in 0..(Len(chain) - 1) :
       /\ k \notin replaced \cup relinked
       /\ chain' = [chain EXCEPT ![k + 1] =
                      generate_ohash([chain[k + 1].payload EXCEPT
                                        !.prev_ohash = <<"forged">>], 0).full_payload]
       /\ relinked' = relinked \cup {k}
  /\ verified' = None
  /\ sliced' = None
  /\ UNCHANGED <<made, replaced, reported>>
  /\ UNCHANGED beside_identity

\* engine.verify_chain(chain)
VerifyAuthorChain ==
  /\ ~IsNone(made)
  /\ LET r == OHashEngine_verify_chain(chain) IN
       /\ verified' = Some(r)
       /\ reported' = IF IsNone(reported) /\ FailingPositions(chain) # {}
                         THEN Some([result |-> r,
                                    first_wrong |-> Earliest(FailingPositions(chain))])
                         ELSE reported
  /\ UNCHANGED <<chain, made, replaced, relinked, sliced>>
  /\ UNCHANGED beside_identity

\* engine.verify_chain(chain[j:k]) for a slice of at least one record
VerifySlice ==
  /\ ~IsNone(made)
  /\ \E j \in 0..Len(chain), k \in 0..Len(chain) :
       /\ j < k
       /\ sliced' = Some([from |-> j, to |-> k,
                          result |-> OHashEngine_verify_chain(SubSeq(chain, j + 1, k))])
  /\ UNCHANGED <<chain, made, replaced, relinked, verified, reported>>
  /\ UNCHANGED beside_identity

ChainNext ==
  CreateAuthorChain \/ ReplaceOhash \/ Relink \/ VerifyAuthorChain \/ VerifySlice

InitChain ==
  /\ NoRun /\ LedgerInit /\ NoThreads /\ NoWriter /\ NoRuns /\ NoGate /\ NoBuild /\ NoZenodo /\ NoCerberos
  /\ NoChain

SpecChain == InitChain /\ [][ChainNext]_vars

(***************************************************************************)
(* The governance gate                                                     *)
(*   matverse-core/core/governance/omega_gate.py  (OmegaGate.decide)       *)
(*                                                                         *)
(* Numbers are fixed-point: thresholds, psi, cvar, alpha and the computed  *)
(* values are in thousandths, the three components of the coherence and    *)
(* the raw performance are in hundredths, so that the weighted sum and the *)
(* factor 0.8 are exact.  One behaviour is one gate and one metrics object *)
(* on which decide is called; the caller may overwrite metrics.psi.        *)
(***************************************************************************)
\* np.clip(x, lo, hi)
clip(x, lo, hi) == IF x < lo THEN lo ELSE IF x > hi THEN hi ELSE x

\* OmegaGate.calculate_psi: 0.4 completeness + 0.3 consistency + 0.3 traceability
calculate_psi(m) ==
  clip(4 * m.completeness + 3 * m.consistency + 3 * m.traceability, 0, 1000)

\* np.exp(-theta / 0.5) in thousandths, for the raw values the model uses
exp_decay(theta) ==
  CASE theta = -10 -> 1221
    [] theta = 0   -> 1000
    [] theta = 20  -> 670
    [] theta = 50  -> 368
\* OmegaGate.calculate_theta
calculate_theta(m) == clip(exp_decay(m.theta), 0, 1000)

\* a decision rule whose four comparisons are open
decide_open(g, m) ==
  LET psi == calculate_psi(m)
      theta == calculate_theta(m)
  IN  IF /\ psi > g.psi_min
         /\ theta < g.theta_sla
         /\ m.cvar < g.cvar_max
         /\ m.alpha > g.alpha_min
        THEN "APPROVE"
      ELSE IF psi * 10 < g.psi_min * 8 THEN "REJECT"
      ELSE "REVIEW"
\* OmegaGate.decide; psi < self.psi_min * 0.8 is compared in ten-thousandths
decide(g, m) ==
  LET psi == calculate_psi(m)
      theta == calculate_theta(m)
  IN  IF /\ psi >= g.psi_min
         /\ theta <= g.theta_sla
         /\ m.cvar <= g.cvar_max
         /\ m.alpha >= g.alpha_min
        THEN "APPROVE"
      ELSE IF psi * 10 < g.psi_min * 8 THEN "REJECT"
      ELSE "REVIEW"

\* OmegaGate.explain_decision: the decision of decide() and the four flags,
\* which compare the fields of metrics (theta in hundredths) with the
\* thresholds; "confidence" and the copies of thresholds and metrics are left out
explain_decision(g, m) ==
  [decision |-> decide(g, m),
   passed |-> [psi |-> m.psi >= g.psi_min,
               theta |-> m.theta * 10 <= g.theta_sla,
               cvar |-> m.cvar <= g.cvar_max,
               alpha |-> m.alpha >= g.alpha_min]]

\* OmegaGate(): the default thresholds 0.55, 0.8, 0.4, 1.0
DefaultGate == [psi_min |-> 550, theta_sla |-> 800, cvar_max |-> 400, alpha_min |-> 1000]
\* the gates: the default one and gates with other thresholds
OmegaGates ==
  [psi_min : {550, 500}, theta_sla : {800, 670}, cvar_max : {400}, alpha_min : {1000}]
\* the metrics objects: values on, above and below the thresholds, a raw
\* performance below 0 and a completeness above 1 (both clipped)
GovernanceMetrics ==
  [psi : {300, 900}, theta : {-10, 0, 20, 50}, cvar : {400, 500}, alpha : {900, 1000},
   completeness : {50, 100, 300}, consistency : {0, 50, 80}, traceability : {0, 100}]
\* the values a caller overwrites metrics.psi with
PsiValues == {300, 900}

beside_gate == <<pipeline_vars, ledger_vars, thread_vars, writer_vars, runs_vars,
                 identity_vars, build_vars,
                 zenodo_vars,
                 cerberos_vars>>

\* gate.decide(metrics)
Decide ==
  /\ IsNone(decision)
  /\ decision' = Some(decide(gate, metrics))
  /\ first_decision' = IF IsNone(first_decision) THEN decision' ELSE first_decision
  /\ UNCHANGED <<gate, metrics, psi_set, explanation>>
  /\ UNCHANGED beside_gate

\* gate.explain_decision(metrics)
Explain ==
  /\ IsNone(explanation)
  /\ explanation' = Some(explain_decision(gate, metrics))
  /\ UNCHANGED <<gate, metrics, decision, first_decision, psi_set>>
  /\ UNCHANGED beside_gate

\* outside the gate: metrics.psi = v, every other field kept
SetPsi ==
  /\ ~IsNone(decision) /\ ~psi_set
  /\ \E v \in PsiValues :
       /\ v # metrics.psi
       /\ metrics' = [metrics EXCEPT !.psi = v]
  /\ psi_set' = TRUE
  /\ decision' = None
  /\ explanation' = None
  /\ UNCHANGED <<gate, first_decision>>
  /\ UNCHANGED beside_gate

GateNext == Decide \/ Explain \/ SetPsi

InitGate ==
  /\ NoRun /\ LedgerInit /\ NoThreads /\ NoWriter /\ NoRuns /\ NoChain /\ NoBuild /\ NoZenodo /\ NoCerberos
  /\ gate \in OmegaGates
  /\ metrics \in GovernanceMetrics
  /\ decision = None
  /\ first_decision = None
  /\ psi_set = FALSE
  /\ explanation = None

SpecGate == InitGate /\ [][GateNext]_vars

(***************************************************************************)
(* ManifestBuilder.build on a list of files                                *)
(*   tools/exocortex_executor/manifest.py                                  *)
(*                                                                         *)
(* What ManifestBuilder_build of the pipeline part counts is spelled out   *)
(* here: the list of Path objects, the sort by str(path), one entry per    *)
(* file, the root hash over the entries and the signature.  One behaviour  *)
(* is one list of files and two calls of build, the second one on a        *)
(* permutation of the list.                                                *)
(***************************************************************************)
\* the str() of the paths a caller may pass, in ascending order of str
PathNames == <<"a.tex", "b.pdf", "c.py">>
\* str(p) < str(q)
str_less(a, b) ==
  \E i, j \in DOMAIN PathNames : i < j /\ PathNames[i] = a /\ PathNames[j] = b
\* the Path objects
Paths == {PathObj(PathNames[i]) : i \in DOMAIN PathNames}
\* all lists of at most n elements of S
SeqsUpTo(S, n) == UNION {[1..m -> S] : m \in 0..n}
\* the lists obtained from s by reordering it
Reorderings(s) ==
  {[i \in DOMAIN s |-> s[f[i]]] :
     f \in {g \in [DOMAIN s -> DOMAIN s] : \A i, j \in DOMAIN s : i # j => g[i] # g[j]}}

\* hashlib.sha256(data).hexdigest()
sha256(data) == <<"sha256(">> \o data \o <<")">>

\* a build that keeps the files in the order they were passed
sorted_not(files) == files
\* sorted(files, key=lambda p: str(p)): a stable sort, here by insertion
RECURSIVE sorted(_)
sorted(files) ==
  IF files = <<>> THEN <<>>
  ELSE LET rest == sorted(SubSeq(files, 1, Len(files) - 1))
           x == files[Len(files)]
           before == SelectSeq(rest, LAMBDA y : ~str_less(PyStr(x), PyStr(y)))
           after == SelectSeq(rest, LAMBDA y : str_less(PyStr(x), PyStr(y)))
       IN  before \o <<x>> \o after

\* ManifestBuilder._hash_file: the digest of what the file holds; every file
\* holds its own content, the same at both calls
hash_file(path) == sha256(<<"content of", PyStr(path)>>)
\* the for loop of build: one entry per file, in sorted order
file_entries(files) ==
  [i \in DOMAIN sorted(files) |->
     [path |-> PyStr(sorted(files)[i]), sha256 |-> hash_file(sorted(files)[i])]]
\* json.dumps(file_entries, sort_keys=True)
RECURSIVE entries_json(_)
entries_json(entries) ==
  IF entries = <<>> THEN <<>>
  ELSE <<"path", entries[1].path, "sha256">> \o entries[1].sha256
         \o entries_json(Tail(entries))
\* ManifestBuilder._hash_root
hash_root(entries) == sha256(entries_json(entries))
\* ManifestBuilder._load_signing_key, with MATVERSE_MANIFEST_KEY_PATH unset
load_signing_key(key) ==
  IF key # "" THEN [key |-> key] ELSE Raised("Missing manifest signing key")
\* ManifestBuilder._sign_manifest: sha256(key + json of root_hash and trace_id)
sign_manifest(key, root_hash, trace_id) ==
  sha256(<<key, "root_hash">> \o root_hash \o <<"trace_id", trace_id>>)
\* ManifestBuilder.build; t is what _now() returns
build(trace_id, files, key, t) ==
  LET entries == file_entries(files)
      root_hash == hash_root(entries)
      k == load_signing_key(key)
  IN  IF IsRaised(k) THEN k
      ELSE [trace_id |-> trace_id,
            generated_at |-> t,
            root_hash |-> root_hash,
            files |-> entries,
            signature |-> sign_manifest(k.key, root_hash, trace_id),
            path |-> PathObj("manifest.json")]

\* the signing keys of the environment: unset, or one of two keys
SigningKeys == {"", "key 1", "key 2"}

beside_build == <<pipeline_vars, ledger_vars, thread_vars, writer_vars, runs_vars,
                  identity_vars, gate_vars,
                  zenodo_vars,
                  cerberos_vars>>

\* manifest = ManifestBuilder(trace_id).build(files)
Build ==
  /\ IsNone(built)
  /\ LET m == build("t1", build_files, build_key, 1) IN
       /\ built' = Some(m)
       /\ built_file' = IF IsRaised(m) THEN built_file
                        ELSE Some(ManifestBuilder_written(m))
  /\ UNCHANGED <<build_files, build_key, built_permuted>>
  /\ UNCHANGED beside_build

\* a second call, later, with the same files in another order (or the same)
BuildPermuted ==
  /\ ~IsNone(built) /\ IsNone(built_permuted)
  /\ \E files \in Reorderings(build_files) :
       LET m == build("t1", files, build_key, 2) IN
       /\ built_permuted' = Some(m)
       /\ built_file' = IF IsRaised(m) THEN built_file
                        ELSE Some(ManifestBuilder_written(m))
  /\ UNCHANGED <<build_files, build_key, built>>
  /\ UNCHANGED beside_build

BuildNext == Build \/ BuildPermuted

InitBuild ==
  /\ NoRun /\ LedgerInit /\ NoThreads /\ NoWriter /\ NoRuns /\ NoChain /\ NoGate /\ NoZenodo /\ NoCerberos
  /\ build_files \in SeqsUpTo(Paths, MaxBuildFiles)
  /\ build_key \in SigningKeys
  /\ built = None
  /\ built_permuted = None
  /\ built_file = None

SpecBuild == InitBuild /\ [][BuildNext]_vars

(***************************************************************************)
(* One publication attempt on Zenodo, request by request                   *)
(***************************************************************************)
\* the two pieces of code that publish on Zenodo: ZenodoPublisher.publish of
\* the publishers package, and DeployExecutor._publish_to_zenodo
ZenodoClients == {"publisher", "deploy"}
\* how a request to Zenodo ends: the expected status, another status, no answer
ZenodoAnswers == {"ok", "fail", "transport"}
\* how an upload ends: as a request does, or the file cannot be opened
UploadAnswers == ZenodoAnswers \cup {"open error"}

beside_zenodo == <<pipeline_vars, ledger_vars, thread_vars, writer_vars, runs_vars,
                   identity_vars, gate_vars, build_vars,
                   cerberos_vars>>

\* a flag that only remembers the last upload
upload_success_last(ups) == ups = <<>> \/ ups[Len(ups)] = "ok"
\* upload_success of _publish_to_zenodo, uploaded of ZenodoPublisher.publish:
\* no upload made has failed
upload_success(ups) == \A i \in DOMAIN ups : ups[i] = "ok"

\* what the publishing code returns when it fails, in the shape each client uses
zenodo_failure(client, msg) ==
  IF client = "publisher" THEN [ok |-> FALSE, error |-> msg]
  ELSE [success |-> FALSE, message |-> msg, doi |-> ""]
\* what it returns when the deposition is published
zenodo_success(client) ==
  IF client = "publisher" THEN [ok |-> TRUE, doi |-> "doi"]
  ELSE [success |-> TRUE, message |-> "Publicado com sucesso", doi |-> "doi"]

\* the token test of ZenodoPublisher.publish and the request that creates the
\* deposition (DeployExecutor has a publisher only when it has a token)
ZCreate ==
  /\ z_pc = "create"
  /\ \E token \in BOOLEAN, a \in ZenodoAnswers :
       /\ token \/ z_client = "publisher"
       /\ IF ~token
            THEN /\ z_result' = Some(zenodo_failure(z_client, "Missing MATVERSE_ZENODO_TOKEN"))
                 /\ z_pc' = "done"
                 /\ UNCHANGED z_created
          ELSE IF a = "ok"
            THEN /\ z_created' = TRUE
                 /\ z_pc' = "upload"
                 /\ UNCHANGED z_result
          ELSE /\ z_result' = Some(zenodo_failure(z_client,
                                 IF a = "transport" THEN "transport"
                                 ELSE "Failed to create deposition"))
               /\ z_pc' = "done"
               /\ UNCHANGED z_created
  /\ UNCHANGED <<z_client, z_files, z_uploads, z_published>>
  /\ UNCHANGED beside_zenodo

\* one turn of the upload loop: ZenodoPublisher._upload_files returns at the
\* first upload that fails and lets an error of open() out; the loop of
\* _publish_to_zenodo clears upload_success and goes on
ZUpload ==
  /\ z_pc = "upload" /\ Len(z_uploads) < z_files
  /\ \E a \in UploadAnswers :
       /\ z_uploads' = Append(z_uploads, a)
       /\ IF z_client = "publisher" /\ a # "ok"
            THEN /\ z_pc' = "done"
                 /\ z_result' = Some(IF a = "open error" THEN Raised("cannot open file")
                                     ELSE zenodo_failure(z_client,
                                            IF a = "transport" THEN "transport"
                                            ELSE "Failed to upload file"))
            ELSE UNCHANGED <<z_pc, z_result>>
  /\ UNCHANGED <<z_client, z_files, z_created, z_published>>
  /\ UNCHANGED beside_zenodo

\* after the loop: the test of the uploads, then the publish action
ZPublish ==
  /\ z_pc = "upload" /\ Len(z_uploads) = z_files
  /\ IF ~upload_success(z_uploads)
       THEN /\ z_result' = Some(zenodo_failure(z_client, "Alguns uploads falharam"))
            /\ UNCHANGED z_published
       ELSE \E a \in ZenodoAnswers :
              /\ z_published' = TRUE
              /\ z_result' = Some(IF a = "ok" THEN zenodo_success(z_client)
                                  ELSE zenodo_failure(z_client,
                                         IF a = "transport" THEN "transport"
                                         ELSE "Failed to publish deposition"))
  /\ z_pc' = "done"
  /\ UNCHANGED <<z_client, z_files, z_created, z_uploads>>
  /\ UNCHANGED beside_zenodo

ZenodoNext == ZCreate \/ ZUpload \/ ZPublish

InitZenodo ==
  /\ NoRun /\ LedgerInit
  /\ NoThreads /\ NoWriter /\ NoRuns /\ NoChain /\ NoGate /\ NoBuild /\ NoCerberos
  /\ z_client \in ZenodoClients
  /\ z_pc = "create"
  /\ z_files \in 0..MaxUploads
  /\ z_created = FALSE
  /\ z_uploads = <<>>
  /\ z_published = FALSE
  /\ z_result = None

SpecZenodo == InitZenodo /\ [][ZenodoNext]_vars

(***************************************************************************)
(* Cerberos: the three heads and validate_action, for one actor            *)
(***************************************************************************)
\* the ActionContext objects of the actor: the keys of resources and the number
\* of proposed changes; timestamp is the same in all of them
ActionContexts ==
  {[action_type |-> "publish_paper",
    resources |-> {"paper_storage", "doi_service", "metadata_db"}, changes |-> 1],
   [action_type |-> "update_profile",
    resources |-> {"user_db", "orcid_api"}, changes |-> 1],
   [action_type |-> "override_governance", resources |-> {}, changes |-> 1]}
\* now - last_action when PastHead.validate is called, in whole seconds
TimeDiffs == {0, 1}
\* the action count above which a new action type is called an anomaly
AnomalyActionCount == 10

beside_cerberos == <<pipeline_vars, ledger_vars, thread_vars, writer_vars, runs_vars,
                     identity_vars, gate_vars, build_vars, zenodo_vars>>

\* PastHead._is_behavioral_anomaly, h being self.history[actor] as validate has
\* just updated it
is_behavioral_anomaly(h, context) ==
  /\ context.action_type \notin h.action_types
  /\ h.action_count > AnomalyActionCount

\* PastHead.validate: the history of the actor after the call, and the pair returned
PastHead_validate(history, context, time_diff) ==
  IF ~IsNone(history) /\ time_diff < 1
    THEN [history |-> history, valid |-> FALSE, reason |-> "Action too frequent"]
  ELSE LET h0 == IF IsNone(history) THEN [action_count |-> 0, action_types |-> {}]
                 ELSE history.some
           h1 == [action_count |-> h0.action_count + 1,
                  action_types |-> h0.action_types \cup {context.action_type}]
       IN  IF is_behavioral_anomaly(h1, context)
             THEN [history |-> Some(h1), valid |-> FALSE,
                   reason |-> "Behavioral anomaly detected"]
             ELSE [history |-> Some(h1), valid |-> TRUE,
                   reason |-> "Historical consistency validated"]

\* PresentHead._create_action_pattern: a digest of type, timestamp and len(resources)
create_action_pattern(context) ==
  sha256(<<context.action_type, "0", json_number(Cardinality(context.resources))>>)
\* PresentHead._is_resource_abuse
is_resource_abuse(context) ==
  \/ Cardinality(context.resources) > 100
  \/ {"admin", "delete", "all"} \subseteq context.resources
  \/ {"root", "override", "permissions"} \subseteq context.resources
\* PresentHead.validate: the window after the call (of which only the last three
\* patterns are ever read, and are kept), and the pair returned
PresentHead_validate(window, context) ==
  LET current_pattern == create_action_pattern(context)
      appended == Append(window, current_pattern)
      window1 == IF Len(appended) > 3 THEN Tail(appended) ELSE appended
  IN  IF Len(window) >= 3 /\ \A i \in 1..Len(window) : window[i] = current_pattern
        THEN [window |-> window, valid |-> FALSE, reason |-> "Pattern repetition detected"]
      ELSE IF is_resource_abuse(context)
        THEN [window |-> window1, valid |-> FALSE, reason |-> "Resource abuse detected"]
      ELSE [window |-> window1, valid |-> TRUE, reason |-> "Behavioral pattern validated"]

\* the smaller of two numbers
min(a, b) == IF a < b THEN a ELSE b
\* FutureHead._simulate_impact in thousandths; FutureHead.history is always empty
simulate_impact(context) ==
  LET critical_access ==
        Cardinality(context.resources \cap {"admin", "root", "sudo", "delete", "override"})
  IN  (min(context.changes * 100, 1000) * 3) \div 10
        + (min((critical_access * 1000) \div 3, 1000) * 4) \div 10
\* FutureHead._is_takeover_attempt: an indicator is part of the action type (the
\* action types of the model are whole words); no context proposes a change of
\* governance_core
is_takeover_attempt(context) ==
  context.action_type \in {"assume_role", "elevate_privileges", "bypass_authentication",
                           "disable_security", "override_governance"}
\* FutureHead._get_expected_resources
get_expected_resources(action_type) ==
  CASE action_type = "publish_paper" -> {"paper_storage", "doi_service", "metadata_db"}
    [] action_type = "update_profile" -> {"user_db", "orcid_api"}
    [] action_type = "submit_review" -> {"review_queue", "paper_db"}
    [] action_type = "request_funding" -> {"grant_db", "wallet_service"}
    [] OTHER -> {}
\* FutureHead._is_contextually_legitimate
is_contextually_legitimate(context) ==
  Cardinality(context.resources \ get_expected_resources(context.action_type)) <= 2
\* FutureHead.validate
FutureHead_validate(context) ==
  IF simulate_impact(context) > 800
    THEN [valid |-> FALSE, reason |-> "High negative impact predicted"]
  ELSE IF is_takeover_attempt(context)
    THEN [valid |-> FALSE, reason |-> "Takeover attempt detected"]
  ELSE IF ~is_contextually_legitimate(context)
    THEN [valid |-> FALSE, reason |-> "Contextual legitimacy failed"]
  ELSE [valid |-> TRUE, reason |-> "Future context validated"]

\* the item validate_action stores for a head
head_item(key, r) ==
  [key |-> key, valid |-> r.valid, reason |-> r.reason,
   score |-> IF r.valid THEN 1 ELSE 0]
\* a decision that wants every head to validate
overall_valid_unanimous(scores) ==
  scores[1] + scores[2] + scores[3] = Len(scores)
\* np.mean(scores) >= self.overall_threshold, the threshold being 0.6
overall_valid(scores) ==
  10 * (scores[1] + scores[2] + scores[3]) >= 6 * Len(scores)

\* validate_action, phase 1: results = {}, past_head.validate(context)
ValidatePast ==
  /\ c_pc = "idle"
  /\ IF IsNone(c_history) THEN TRUE
     ELSE c_history.some.action_count < MaxValidations
  /\ \E context \in ActionContexts, time_diff \in TimeDiffs :
       LET r == PastHead_validate(c_history, context, time_diff) IN
       /\ c_context' = context
       /\ c_history' = r.history
       /\ c_results' = <<head_item("past", r)>>
  /\ c_pc' = "present"
  /\ UNCHANGED c_window
  /\ UNCHANGED beside_cerberos

\* validate_action, phase 2: present_head.validate(context)
ValidatePresent ==
  /\ c_pc = "present"
  /\ LET r == PresentHead_validate(c_window, c_context) IN
       /\ c_window' = r.window
       /\ c_results' = Append(c_results, head_item("present", r))
  /\ c_pc' = "future"
  /\ UNCHANGED <<c_history, c_context>>
  /\ UNCHANGED beside_cerberos

\* validate_action, phase 3 and the combined decision
ValidateFuture ==
  /\ c_pc = "future"
  /\ LET r == FutureHead_validate(c_context)
         items == Append(c_results, head_item("future", r))
         valid == overall_valid([i \in 1..Len(items) |-> items[i].score])
     IN  c_results' = Append(items, [key |-> "overall", valid |-> valid,
                                     decision |-> IF valid THEN "APPROVED"
                                                  ELSE "REJECTED"])
  /\ c_pc' = "idle"
  /\ UNCHANGED <<c_history, c_window, c_context>>
  /\ UNCHANGED beside_cerberos

CerberosNext == ValidatePast \/ ValidatePresent \/ ValidateFuture

InitCerberos ==
  /\ NoRun /\ LedgerInit
  /\ NoThreads /\ NoWriter /\ NoRuns /\ NoChain /\ NoGate /\ NoBuild /\ NoZenodo
  /\ NoCerberos

SpecCerberos == InitCerberos /\ [][CerberosNext]_vars

(***************************************************************************)
(* Vocabulary of the properties                                            *)
(***************************************************************************)
\* the run is over: run() / execute() returned its record
Returned == pc = "returned"
\* position of a stage in the documented order
StageRank(stage) ==
  CASE stage = "manifest" -> 1 [] stage = "tests" -> 2 [] stage = "sbom" -> 3
    [] stage = "provenance" -> 4 [] stage = "pbse_local" -> 5
    [] stage = "omega_gate" -> 6 [] stage = "sigstore" -> 7
    [] stage = "publish" -> 8 [] stage = "ledger" -> 9
\* stage s was executed in this run and ended with outcome o
Ended(s, o) == \E i \in 1..Len(calls) : calls[i].stage = s /\ calls[i].outcome = o
\* the collaborator of stage s was invoked in this run
Invoked(s) == \E i \in 1..Len(calls) : calls[i].stage = s /\ calls[i].invoked
\* a stage did not succeed
Failure == {"fail", "raise"}

(***************************************************************************)
(* C1  In every run the stages execute in the order manifest, tests, SBOM, *)
(* provenance, local policy check, governance check, attestation, publish, *)
(* ledger append, and after a stage that failed no later stage is          *)
(* executed; when the tests fail, SBOM generation, provenance generation   *)
(* and every publisher are never invoked.                                  *)
(***************************************************************************)
C1_StagesInOrderAndHaltOnFailure ==
  /\ \A i, j \in 1..Len(calls) :
       i < j => \/ StageRank(calls[i].stage) < StageRank(calls[j].stage)
                \/ calls[i].stage = "publish" /\ calls[j].stage = "publish"
  /\ \A i \in 1..Len(calls) : calls[i].outcome \in Failure => i = Len(calls)
  /\ Ended("tests", "fail") =>
       ~Invoked("sbom") /\ ~Invoked("provenance") /\ ~Invoked("publish")

\* a run whose tests failed has returned
C1_Witness == Returned /\ Ended("tests", "fail") /\ executor = "sovereign"

(***************************************************************************)
(* C2  A publisher's publish is invoked in a run only after, in that same  *)
(* run, the tests passed, the local policy check passed, the governance    *)
(* check approved and the attestation reported ok.                         *)
(***************************************************************************)
C2_PublishOnlyAfterAllChecks ==
  (Invoked("publish") /\ executor = "sovereign") =>
     /\ Ended("tests", "ok")
     /\ Ended("pbse_local", "ok")
     /\ Ended("omega_gate", "ok")
     /\ Ended("sigstore", "ok")

(***************************************************************************)
(* C3  The governance stage is fail-closed: the run advances past it only  *)
(* when the endpoint returned a definitive PASS for this run; in every     *)
(* other situation (no response, transport or HTTP error, malformed or     *)
(* non-object body, no passing decision, no endpoint configured) the run   *)
(* has failed and does not proceed to attestation or publication.          *)
(***************************************************************************)
\* the answer of the endpoint recorded for this run is a definitive PASS
DefinitivePass ==
  /\ "omega_gate" \in DOMAIN results["steps"]
  /\ LET r == results["steps"]["omega_gate"] IN
       IF executor = "sovereign"
         THEN "response" \in DOMAIN r /\ r.response.kind = "dict"
              /\ r.response.pass = "true"
         ELSE r.details.kind = "dict" /\ r.details.decision = "PASS"

C3_GovernanceFailClosed ==
  \A i \in 1..Len(calls) :
    (calls[i].stage = "omega_gate" /\ ~DefinitivePass) =>
       /\ i = Len(calls)
       /\ pc \in {"returned", "escaped"}
       /\ results["success"] = FALSE

(***************************************************************************)
(* C4  Each stage failure (tests, local policy, remote governance,         *)
(* attestation, publish) ends the run Blocked: the returned record has     *)
(* success = False, blocked = True and a reason naming the failing stage.  *)
(* A stage failure is a stage whose collaborator reports failure.          *)
(***************************************************************************)
ReasonOf(stage) ==
  CASE stage = "tests" -> "Tests failed" [] stage = "pbse_local" -> "PBSE BLOCK"
    [] stage = "omega_gate" -> "Omega Gate BLOCK"
    [] stage = "sigstore" -> "Sigstore attest failed"
    [] stage = "publish" -> "Publish blocked"
    [] stage = "ledger" -> "Ledger write failed"

C4_StageFailureEndsBlocked ==
  \A i \in 1..Len(calls) :
    (executor = "sovereign" /\ Returned /\ calls[i].outcome = "fail") =>
       /\ results["success"] = FALSE
       /\ Get(results, "blocked", FALSE) = TRUE
       /\ Get(results, "reason", "") = ReasonOf(calls[i].stage)

\* a run whose publisher reported a failure has returned
C4_Witness == executor = "sovereign" /\ Returned /\ Ended("publish", "fail")

(***************************************************************************)
(* C5  run() never lets an error escape: whatever the collaborators do     *)
(* (a collaborator that raises, the report write itself), it returns a     *)
(* record that is success or blocked with a reason, and a report holding   *)
(* that record has been written.                                           *)
(***************************************************************************)
C5_NeverEscapesAndTerminalRecord ==
  executor = "sovereign" =>
    /\ pc # "escaped"
    /\ Returned =>
         /\ \/ results["success"] = TRUE
            \/ Get(results, "blocked", FALSE) = TRUE /\ Get(results, "reason", "") # ""
         /\ Len(reports) >= 1 /\ reports[Len(reports)] = results

(***************************************************************************)
(* C6  In every complete execution of a run the report is written exactly  *)
(* once, at the terminal state: no report exists while stages still        *)
(* execute, and when the run has returned (success, Blocked or through     *)
(* the exception handler) exactly one report has been written and it       *)
(* holds the final record.                                                 *)
(***************************************************************************)
C6_ReportExactlyOnceAtTerminal ==
  /\ Returned => Len(reports) = 1 /\ reports[1] = results
  /\ ~Returned => Len(reports) = 0

\* a Blocked run has returned and its one report is written
C6_Witness ==
  /\ Returned /\ executor = "sovereign" /\ Len(reports) = 1
  /\ Get(results, "blocked", FALSE) = TRUE

(***************************************************************************)
(* C7  Every run is persisted to the ledger exactly once at its terminal   *)
(* state, success or first failure: a run that ends Blocked has appended   *)
(* exactly one record to the ledger, just as a successful run has.         *)
(***************************************************************************)
C7_LedgerExactlyOncePerRun ==
  (executor = "sovereign" /\ Returned
     /\ (results["success"] = TRUE \/ Get(results, "blocked", FALSE) = TRUE))
    => Len(ledger_file) = 1

(***************************************************************************)
(* C8  The line LedgerWriter.write appends for a successful run is the     *)
(* finished record: it holds the final success flag, the end time and the  *)
(* results of all stages, i.e. it equals the record written to the report. *)
(***************************************************************************)
C8_LedgerLineIsFinishedRecord ==
  (executor = "sovereign" /\ Returned /\ results["success"] = TRUE) =>
     /\ Len(ledger_file) = 1
     /\ Len(reports) = 1
     /\ ledger_file[1] = reports[1]

(***************************************************************************)
(* C9  Publishing is fail-closed across the set of publishers: when some   *)
(* configured publisher fails the run ends Blocked, and there is no state  *)
(* where the run is Blocked while a publisher of the list has published.   *)
(***************************************************************************)
C9_NoPartialPublication ==
  executor = "sovereign" =>
    /\ (Returned /\ Ended("publish", "fail")) => Get(results, "blocked", FALSE) = TRUE
    /\ Get(results, "blocked", FALSE) = TRUE => published = {}

C11_UnknownPublisherAbortsBeforeAnyStage ==
  (executor = "sovereign" /\ Get(results, "error", "") = "Unknown publisher") =>
     /\ calls = <<>>
     /\ results["steps"] = EmptyDict

(***************************************************************************)
(* C12  Without a manifest signing key the run fails at the manifest step: *)
(* no manifest is produced and manifest.json is not written, no later      *)
(* stage (tests .. ledger append) executes or records a result, nothing    *)
(* is published, and the run ends with an error, never in success.         *)
(***************************************************************************)
C12_MissingSigningKeyIsFatalAtManifest ==
  (executor = "sovereign" /\ ~env.signing_key) =>
     /\ manifest = EmptyDict
     /\ manifest_file = <<>>
     /\ \A i \in 1..Len(calls) : calls[i].stage = "manifest"
     /\ results["steps"] = EmptyDict
     /\ published = {} /\ ledger_file = <<>>
     /\ Get(results, "success", FALSE) # TRUE
     /\ pc \in {"manifest", "returned", "escaped"}
     /\ pc # "manifest" =>
          Get(results, "error", "") \in {"Missing manifest signing key", "cannot read file"}

\* a run without key has ended in the exception handler with the key's error
C12_Witness ==
  /\ executor = "sovereign" /\ ~env.signing_key /\ Returned
  /\ Ended("manifest", "raise")
  /\ Get(results, "error", "") = "Missing manifest signing key"
  /\ results["success"] = FALSE

(***************************************************************************)
(* C13  The core never retries a stage: within one run the collaborator of *)
(* each stage is invoked at most once, whatever its outcome, and the       *)
(* publishers invoked are the configured ones, each entry of the list at   *)
(* most once and in the order of the list.                                 *)
(***************************************************************************)
\* the invocations of the collaborators of stage s, in order
Invocations(s) == SelectSeq(calls, LAMBDA c : c.stage = s /\ c.invoked)

C13_NoStageIsRetried ==
  /\ \A i \in 1..Len(calls) :
       calls[i].stage # "publish" => Len(Invocations(calls[i].stage)) <= 1
  /\ LET p == Invocations("publish") IN
       IF executor = "sovereign"
         THEN /\ Len(p) <= Len(publishers)
              /\ \A k \in 1..Len(p) : p[k].who = publishers[k]
         ELSE \A j, k \in 1..Len(p) : p[j].who = p[k].who => j = k

\* a production run whose second publisher failed: both were invoked, once each
C13_Witness ==
  /\ executor = "sovereign" /\ Returned /\ Get(results, "blocked", FALSE) = TRUE
  /\ Len(Invocations("publish")) = 2
  /\ Ended("publish", "fail")
  /\ Len(Invocations("omega_gate")) <= 1 /\ Len(Invocations("tests")) = 1

(***************************************************************************)
(* Vocabulary of the ledger properties                                     *)
(***************************************************************************)
\* no stored entry was written to from outside the ledger's operations, and
\* add_entry was only given objects that were not yet stored
Unmodified == modified = {} /\ ~aliased
\* the last operation was op
Did(op) == last_op.op = op

(***************************************************************************)
(* C14  After any sequence of add_entry calls on a ledger whose stored     *)
(* entries are not modified, every entry after the first carries the hash  *)
(* of its predecessor in previous_hash and verify_chain() is true, for a   *)
(* ledger of every length, the empty and the one-entry ledger included.    *)
(***************************************************************************)
C14_ChainLinksAndVerifyChainOnUnmodifiedLedger ==
  Unmodified =>
    /\ \A i \in 1..(Len(ledger) - 1) :
         entry_at(objects, ledger, i).previous_hash
           = compute_hash(entry_at(objects, ledger, i - 1))
    /\ verify_chain(objects, ledger, merkle_tools)

(***************************************************************************)
(* C15  For every non-empty unmodified ledger and every index i in         *)
(* [0, len) verify_entry(i) is true, after every append: the proof of      *)
(* get_proof(i) recomputes the current Merkle root from entry i's hash.    *)
(***************************************************************************)
C15_EveryEntryVerifiesOnUnmodifiedLedger ==
  Unmodified =>
    \A i \in 0..(Len(ledger) - 1) :
      /\ ~IsNone(get_proof(ledger, merkle_tools, i))
      /\ verify_entry(objects, ledger, merkle_tools, i)

(***************************************************************************)
(* C16  When the content of the stored entry at index i has just been      *)
(* changed (no ledger operation since), verify_entry(i) is false and       *)
(* verify_chain() is false.                                                *)
(***************************************************************************)
C16_ContentChangeInvalidatesEntryAndChain ==
  Did("tamper") =>
    /\ ~verify_entry(objects, ledger, merkle_tools, last_op.index)
    /\ ~verify_chain(objects, ledger, merkle_tools)

\* the middle entry of three was changed: it no longer verifies, the first does
C16_Witness ==
  /\ Did("tamper") /\ last_op.index = 1 /\ Len(ledger) = 3
  /\ Cardinality(modified) = 1 /\ ~aliased
  /\ verify_entry(objects, ledger, merkle_tools, 0)
  /\ ~verify_entry(objects, ledger, merkle_tools, 1)
  /\ ~verify_chain(objects, ledger, merkle_tools)

(***************************************************************************)
(* C17  Corruption is never silently repaired: once the content of a       *)
(* stored entry was changed after its append, verify_chain() is false in   *)
(* every later state of the ledger, whatever operations follow and         *)
(* whichever entry was changed, the last one included.                     *)
(***************************************************************************)
C17_CorruptionIsNeverRepaired ==
  modified # {} => ~verify_chain(objects, ledger, merkle_tools)

(***************************************************************************)
(* C18  add_entry alone determines previous_hash: after add_entry(e) the   *)
(* stored entry's previous_hash is the hash of the entry that was last     *)
(* before the call, or the empty string if the ledger was empty, whatever  *)
(* the caller had put in e.previous_hash.                                  *)
(***************************************************************************)
C18_AddEntryDeterminesPreviousHash ==
  [][last_op'.op = "add_entry" /\ Len(ledger') = Len(ledger) + 1 =>
       objects'[ledger'[Len(ledger')]].previous_hash =
         IF ledger = <<>> THEN <<>>
         ELSE compute_hash(objects[ledger[Len(ledger)]])]_vars

(***************************************************************************)
(* C19  Entries are immutable once appended: no ledger operation           *)
(* (add_entry, rebuild_tree, get_proof, verify_entry, verify_chain,        *)
(* create_evidence_receipt, get_merkle_root) changes a field, and so the   *)
(* hash, of an entry already stored, whatever argument add_entry is given, *)
(* an object that was appended before included.                            *)
(***************************************************************************)
C19_StoredEntriesAreImmutable ==
  [][last_op'.op # "tamper" =>
       \A i \in 1..Len(ledger) :
         /\ ledger'[i] = ledger[i]
         /\ objects'[ledger'[i]] = objects[ledger[i]]]_vars

(***************************************************************************)
(* C20  For an index outside [0, len(ledger)) get_proof and                *)
(* create_evidence_receipt fail with an IndexOutOfRange error instead of   *)
(* returning a value, and they leave the ledger state unchanged.           *)
(***************************************************************************)
C20_IndexOutOfRangeIsAnError ==
  [][(/\ last_op'.op \in {"get_proof", "create_evidence_receipt"}
      /\ (last_op'.index < 0 \/ last_op'.index >= Len(ledger)))
       => /\ IsRaised(last_op'.result)
          /\ UNCHANGED <<objects, ledger, merkle_tools>>]_vars

\* C21: appends by several threads are serialized: once every add_entry call has
\* returned, whatever the interleaving, each entry after the first carries the
\* hash of the entry before it, and verify_chain() is true (stated for the
\* ledgers of two and more entries, where a sequence of calls makes it true).
C21_ConcurrentAppendsKeepTheChain ==
  ThreadsIdle =>
    /\ ChainLinked(objects, ledger)
    /\ Len(ledger) >= 2 => verify_chain(objects, ledger, merkle_tools)

\* C22: the log is append-only: after any sequence of writes by one or several
\* runs it is the lines it held before, unchanged and in order, followed by one
\* line per write that returned ok, in the order of the writes; and a write that
\* fails returns ok = False, it does not raise.
C22_LogIsAppendOnly ==
  /\ log_file = lines_before \o ok_records
  /\ \A w \in DOMAIN write_results :
       /\ ~IsRaised(write_results[w])
       /\ write_results[w].ok \in BOOLEAN
\* two runs wrote after one another into a log that held a line, and a third
\* write failed
C22_Witness ==
  /\ lines_before # <<>>
  /\ Len(ok_records) = 2
  /\ write_count = 3
  /\ \E w \in DOMAIN write_results : ~write_results[w].ok
  /\ \E w \in DOMAIN write_results : write_results[w].ok

\* C23: two runs share no mutable state: in every interleaving each stage of a
\* run reads the manifest that this run built (the provenance stage and the
\* attestation stage in particular), and no run fails because the other one
\* was started.
C23_RunsShareNoState ==
  \A r \in Runs :
    /\ run_pc[r] # "raised"
    /\ \A stage \in DOMAIN consumed[r] :
         consumed[r][stage] = ManifestBuilder_written(run_manifest[r])

\* C24: the chain create_author_chain makes for N >= 1 artifacts has an empty
\* prev_ohash in record 0, in every later record the ohash of the record before
\* it, in every record the digest of the record's own payload as ohash, and
\* verify_chain returns true on it.
C24_CreatedChainIsLinkedAndVerifies ==
  (~IsNone(made) /\ replaced = {} /\ relinked = {} /\ Len(chain) >= 1) =>
    /\ chain[1].payload.prev_ohash = <<>>
    /\ \A i \in 1..(Len(chain) - 1) : chain[i + 1].payload.prev_ohash = chain[i].ohash
    /\ \A i \in 1..Len(chain) :
         chain[i].ohash = sha3_256(OHashPayload_to_json(chain[i].payload))
    /\ OHashEngine_verify_chain(chain)
    /\ ~IsNone(verified) => verified = Some(TRUE)
\* a chain of the longest length was made and verified
C24_Witness ==
  /\ ~IsNone(made) /\ replaced = {} /\ relinked = {}
  /\ Len(chain) = MaxArtifacts
  /\ verified = Some(TRUE)

\* C25: once the stored ohash of record k of a valid chain is replaced by another
\* value, verify_chain fails on the chain, and for k >= 1 the first k records
\* still verify (k is the first replaced position if several were replaced).
C25_ReplacedOhashFailsChainNotPrefix ==
  (replaced # {} /\ relinked = {}) =>
    /\ ~OHashEngine_verify_chain(chain)
    /\ ~IsNone(verified) => verified = Some(FALSE)
    /\ Earliest(replaced) >= 1 =>
         OHashEngine_verify_chain(SubSeq(chain, 1, Earliest(replaced)))
\* the ohash of the last record of a chain of several records was replaced, and
\* verify_chain was called
C25_Witness ==
  /\ relinked = {}
  /\ Len(chain) >= 2
  /\ replaced = {Len(chain) - 1}
  /\ verified = Some(FALSE)

\* C26: on a chain that fails verification the result of verify_chain identifies
\* the first wrong position: two failing verifications that return the same
\* result have the same first position with a wrong digest or a wrong link.
C26_ResultIdentifiesFirstWrongPosition ==
  (/\ ~IsNone(verified) /\ ~IsNone(reported)
   /\ FailingPositions(chain) # {}
   /\ verified.some = reported.some.result)
    => Earliest(FailingPositions(chain)) = reported.some.first_wrong

C28_DecisionFollowsPsiField ==
  (/\ gate = DefaultGate
   /\ psi_set /\ ~IsNone(decision)
   /\ first_decision = Some("APPROVE")
   /\ metrics.psi * 10 < gate.psi_min * 8)
    => decision = Some("REJECT")

\* C29: the manifest does not depend on the order of the files passed to build:
\* for a permutation of the same list build returns the same files list, sorted
\* by path, and the same root_hash, hence the same signature for the same key
\* and trace_id.
C29_BuildIgnoresOrderOfFiles ==
  (~IsNone(built) /\ ~IsNone(built_permuted) /\ ~IsRaised(built.some)) =>
    LET m1 == built.some
        m2 == built_permuted.some
    IN  /\ ~IsRaised(m2)
        /\ m2.files = m1.files
        /\ \A i, j \in DOMAIN m1.files : i < j => ~str_less(m1.files[j].path, m1.files[i].path)
        /\ m2.root_hash = m1.root_hash
        /\ m2.signature = m1.signature
\* build was called on a list of three different files and on the list reversed
C29_Witness ==
  /\ ~IsNone(built) /\ ~IsNone(built_permuted)
  /\ ~IsRaised(built.some)
  /\ Len(build_files) = 3
  /\ Cardinality({build_files[i] : i \in DOMAIN build_files}) = 3
  /\ str_less(PyStr(build_files[3]), PyStr(build_files[1]))
  /\ built_permuted.some.generated_at # built.some.generated_at

\* the messages of the transport and process errors: a request that gets no
\* answer (governance endpoint, Zenodo), an archive that cannot be written
TransportErrors == {"transport", "cannot write archive"}
\* the error messages recorded in the result of a stage in a run record
RecordedErrors(res, stage) ==
  LET step == Get(res["steps"], stage, EmptyDict)
      names == IF "details" \in DOMAIN step THEN DOMAIN step["details"] ELSE {}
  IN  {Get(step, "error", "")} \cup {Get(step["details"][n], "error", "") : n \in names}
\* the transport errors that struck in a stage of this run: raised out of the
\* collaborator, or returned by it as its error
StruckAt(stage) ==
  {m \in TransportErrors :
     \/ Ended(stage, "raise") /\ Get(results, "error", "") = m
     \/ Ended(stage, "fail") /\ m \in RecordedErrors(results, stage)}

\* C30: a transport or process error raised while the governance endpoint or a
\* publisher is called becomes a failure of that stage: the run ends Blocked and
\* the message of the error is in the result recorded for that stage, in the run
\* record and in the report.
C30_TransportErrorBlocksWithMessage ==
  (executor = "sovereign" /\ pc \in {"returned", "escaped"}) =>
    \A stage \in {"omega_gate", "publish"} :
      \A m \in StruckAt(stage) :
        /\ Get(results, "blocked", FALSE) = TRUE
        /\ m \in RecordedErrors(results, stage)
        /\ Returned => m \in RecordedErrors(reports[Len(reports)], stage)

\* the result a run record holds for a stage ({} when the stage was not recorded)
StepOf(res, stage) == Get(res["steps"], stage, EmptyDict)
\* a run record that says success only when every checking stage passed, and
\* never success together with blocked
SuccessIsEarned(res) ==
  /\ Get(res, "success", FALSE) = TRUE =>
       /\ Get(StepOf(res, "tests"), "ok", FALSE) = TRUE
       /\ Get(StepOf(res, "pbse_local"), "ok", FALSE) = TRUE
       /\ Get(StepOf(res, "omega_gate"), "ok", FALSE) = TRUE
       /\ Get(StepOf(res, "sigstore"), "ok", FALSE) = TRUE
       /\ "publish" \in DOMAIN res["steps"]
       /\ Get(StepOf(res, "publish"), "blocked", FALSE) # TRUE
       /\ Get(StepOf(res, "ledger"), "ok", FALSE) = TRUE
  /\ ~(Get(res, "success", FALSE) = TRUE /\ Get(res, "blocked", FALSE) = TRUE)

\* C31: in every state of a run, success is True only if tests, local policy,
\* governance, attestation and the ledger write returned ok and the publish
\* result is not blocked; success True and blocked True never hold together,
\* in the run record and in every report written from it.
C31_SuccessOnlyAfterEveryStagePassed ==
  executor = "sovereign" =>
    /\ SuccessIsEarned(results)
    /\ \A i \in 1..Len(reports) : SuccessIsEarned(reports[i])
\* a run that ended in success, with its report
C31_Witness ==
  /\ executor = "sovereign" /\ Returned
  /\ Get(results, "success", FALSE) = TRUE
  /\ reports = <<results>>

(***************************************************************************)
(* C32  create_evidence_receipt(i) for a valid index returns a result      *)
(* computed from the ledger as it is at the call: proof_valid is           *)
(* verify_entry(i), chain_valid is verify_chain(), the root is the current *)
(* Merkle root; a receipt for an entry whose content was changed after its *)
(* append does not report both as true; and the call leaves the entries,   *)
(* the ledger and the tree unchanged.                                      *)
(***************************************************************************)
C32_ReceiptIsFreshAndChangesNothing ==
  [][(/\ last_op'.op = "create_evidence_receipt"
      /\ last_op'.index >= 0 /\ last_op'.index < Len(ledger))
       => LET i == last_op'.index
              r == last_op'.result
              v == r.verification_data
          IN  /\ v.proof_valid = verify_entry(objects, ledger, merkle_tools, i)
              /\ v.chain_valid = verify_chain(objects, ledger, merkle_tools)
              /\ r.merkle_root = get_merkle_root(ledger, merkle_tools)
              /\ ledger[i + 1] \in modified => ~(v.proof_valid /\ v.chain_valid)
              /\ UNCHANGED <<objects, ledger, merkle_tools>>]_vars

(***************************************************************************)
(* C33  explain_decision is consistent with decide: the decision of an     *)
(* explanation is APPROVE exactly when its four passed flags (psi, theta,  *)
(* cvar, alpha) are all true.                                              *)
(***************************************************************************)
C33_ExplanationAgreesWithItsFlags ==
  ~IsNone(explanation) =>
    LET e == explanation.some IN
    (e.decision = "APPROVE") <=>
      (e.passed.psi /\ e.passed.theta /\ e.passed.cvar /\ e.passed.alpha)

(***************************************************************************)
(* C34  verify_chain does not check that a chain starts at a genesis       *)
(* record: every slice chain[j:k] with j < k of a chain as                 *)
(* create_author_chain made it verifies as True, also when j > 0 and its   *)
(* first record carries a non-empty prev_ohash.                            *)
(***************************************************************************)
C34_EverySliceOfAValidChainVerifies ==
  (~IsNone(sliced) /\ replaced = {} /\ relinked = {}) => sliced.some.result = TRUE
\* a slice without the first record of the chain: it starts at a record whose
\* prev_ohash is not empty, and verifies
C34_Witness ==
  /\ ~IsNone(sliced) /\ replaced = {} /\ relinked = {}
  /\ sliced.some.from > 0
  /\ chain[sliced.some.from + 1].payload.prev_ohash # <<>>
  /\ sliced.some.result = TRUE

(***************************************************************************)
(* C35  The empty identity chain does not verify: the chain                *)
(* create_author_chain makes for zero artifacts is [] and                  *)
(* OHashEngine.verify_chain returns False on it, whereas                   *)
(* ScientificMerkleLedger.verify_chain returns True on the empty ledger.   *)
(***************************************************************************)
C35_EmptyChainFailsEmptyLedgerPasses ==
  (~IsNone(made) /\ Len(made.some) = 0 /\ ~IsNone(verified)) =>
    /\ chain = <<>>
    /\ verified.some = FALSE
    /\ ledger = <<>> /\ verify_chain(objects, ledger, merkle_tools) = TRUE
\* the chain for zero artifacts was made and verified
C35_Witness ==
  /\ ~IsNone(made) /\ Len(made.some) = 0
  /\ verified = Some(FALSE)

\* the publishing code said that it failed: a result that is not ok, or an exception
ReportsFailure(client, r) ==
  \/ IsRaised(r)
  \/ client = "publisher" /\ Get(r, "ok", TRUE) = FALSE
  \/ client = "deploy" /\ Get(r, "success", TRUE) = FALSE

(***************************************************************************)
(* C36  The publish action of a Zenodo deposition is called only if the    *)
(* deposition was created and every upload of the attempt succeeded; after *)
(* a failed upload it is never called and the publishing code reports      *)
(* failure.                                                                *)
(***************************************************************************)
C36_PublishOnlyAfterEveryUpload ==
  /\ z_published =>
       /\ z_created
       /\ Len(z_uploads) = z_files
       /\ \A i \in DOMAIN z_uploads : z_uploads[i] = "ok"
  /\ ((\E i \in DOMAIN z_uploads : z_uploads[i] # "ok") /\ z_pc = "done") =>
       /\ ~z_published
       /\ ~IsNone(z_result) /\ ReportsFailure(z_client, z_result.some)
\* the first upload failed and a later one succeeded: nothing was published and
\* the result says so
C36_Witness ==
  /\ z_pc = "done" /\ Len(z_uploads) >= 2
  /\ z_uploads[1] # "ok" /\ z_uploads[Len(z_uploads)] = "ok"
  /\ ~z_published
  /\ z_result = Some(zenodo_failure("deploy", "Alguns uploads falharam"))

\* a step of DeployExecutor recorded in steps reported success (the tests
\* step holds one result for each test)
StepSucceeded(res, step) ==
  LET r == res["steps"][step] IN
  IF step = "tests" THEN \A n \in DOMAIN r : r[n].success
  ELSE r.success

(***************************************************************************)
(* C37  In DeployExecutor.execute, whatever the enable flags, the record   *)
(* has success True only if every step recorded in steps (tests,           *)
(* omega_gate, zenodo, github, orcid) reported success.                    *)
(***************************************************************************)
C37_DeploySuccessMeansEveryStepSucceeded ==
  (executor = "deploy" /\ results["success"] = TRUE) =>
    \A step \in DOMAIN results["steps"] \cap {"tests", "omega_gate", "zenodo", "github", "orcid"} :
      StepSucceeded(results, step)

(***************************************************************************)
(* C38  PastHead flags a radical change of behaviour: when the actor has   *)
(* more than 10 counted actions, a validate call (not refused as too       *)
(* frequent) with an action type the actor never used before returns       *)
(* (False, "Behavioral anomaly detected").                                 *)
(***************************************************************************)
C38_NewActionTypeOfEstablishedActorIsAnomaly ==
  [][(/\ c_pc = "idle" /\ c_pc' = "present"
      /\ ~IsNone(c_history)
      /\ c_history.some.action_count > AnomalyActionCount
      /\ c_context'.action_type \notin c_history.some.action_types
      /\ c_results'[1].reason # "Action too frequent")
       => /\ c_results'[1].valid = FALSE
          /\ c_results'[1].reason = "Behavioral anomaly detected"]_vars

(***************************************************************************)
(* C39  validate_action always runs the three heads, past, present and     *)
(* future in that order, and its decision is APPROVED exactly when at      *)
(* least two of the three heads validate, so that an action one head       *)
(* alone rejects is approved.                                              *)
(***************************************************************************)
C39_ThreeHeadsInOrderTwoOfThreeApprove ==
  /\ \A i \in 1..Len(c_results) :
       c_results[i].key = <<"past", "present", "future", "overall">>[i]
  /\ (c_pc = "idle" /\ c_results # <<>>) =>
       /\ Len(c_results) = 4
       /\ (c_results[4].decision = "APPROVED") <=>
            (Cardinality({i \in 1..3 : c_results[i].valid}) >= 2)
       /\ c_results[4].decision \in {"APPROVED", "REJECTED"}
\* the future head alone rejected a takeover attempt, and the action is approved
C39_Witness ==
  /\ c_pc = "idle" /\ Len(c_results) = 4
  /\ c_results[1].valid /\ c_results[2].valid
  /\ ~c_results[3].valid /\ c_results[3].reason = "Takeover attempt detected"
  /\ c_results[4].decision = "APPROVED"

====
